---- MODULE Spec2Model ----
(***************************************************************************)
(* Model of aos::sm::runner::Runner (src/src/runner/runner.cpp): the       *)
(* adapter between the launcher and the host supervisor (systemd).         *)
(*                                                                         *)
(* Threads: the monitor thread (MonitorUnits), the caller threads of       *)
(* StartInstance / StopInstance, the owner thread that calls Start / Stop, *)
(* and the host supervisor as environment.  Everything a thread does       *)
(* between two points where another thread can observe it is one action:   *)
(* a critical section under mMutex, or one supervisor / file system call.  *)
(*                                                                         *)
(* Strings are sequences of one-character strings, so that the unit name   *)
(* formatting and parsing are computed and not assumed.                    *)
(***************************************************************************)
EXTENDS Integers, Sequences, FiniteSets, TLC

(***************************************************************************)
(* Bounds of the model.                                                    *)
(***************************************************************************)
\* Longest instance ID / free part of a unit name tried by the naming checks.
MaxIdLen == 3

\* Number of StartInstance / StopInstance calls the callers make in a run.
MaxCalls == 2

(***************************************************************************)
(* Strings.                                                                *)
(***************************************************************************)
\* Poco::startsWith(str, prefix)
StartsWith(str, prefix) ==
    /\ Len(str) >= Len(prefix)
    /\ SubSeq(str, 1, Len(prefix)) = prefix

\* Poco::endsWith(str, suffix)
EndsWith(str, suffix) ==
    /\ Len(str) >= Len(suffix)
    /\ SubSeq(str, Len(str) - Len(suffix) + 1, Len(str)) = suffix

\* std::string::substr(pos, count) with 0-based pos; the caller guarantees
\* pos <= size, and count is clipped to the end of the string.
Substr(str, pos, count) ==
    LET last == IF pos + count > Len(str) THEN Len(str) ELSE pos + count
    IN  SubSeq(str, pos + 1, last)

\* Poco::format(fmt, arg) for one string argument: the first "%s" of fmt is
\* replaced by arg, every other character is copied.
RECURSIVE FormatFrom(_, _, _, _)
FormatFrom(fmt, i, arg, used) ==
    IF i > Len(fmt) THEN <<>>
    ELSE IF /\ ~used
            /\ fmt[i] = "%"
            /\ i < Len(fmt)
            /\ fmt[i + 1] = "s"
         THEN arg \o FormatFrom(fmt, i + 2, arg, TRUE)
         ELSE <<fmt[i]>> \o FormatFrom(fmt, i + 1, arg, used)

Format(fmt, arg) == FormatFrom(fmt, 1, arg, FALSE)

\* cSystemdUnitNameTemplate = "aos-service@%s.service"
cSystemdUnitNameTemplate ==
    <<"a", "o", "s", "-", "s", "e", "r", "v", "i", "c", "e", "@",
      "%", "s",
      ".", "s", "e", "r", "v", "i", "c", "e">>

\* const std::string prefix = "aos-service@"
UnitPrefix == <<"a", "o", "s", "-", "s", "e", "r", "v", "i", "c", "e", "@">>

\* const std::string suffix = ".service"
UnitSuffix == <<".", "s", "e", "r", "v", "i", "c", "e">>

\* Runner::CreateSystemdUnitName
CreateSystemdUnitName(instance) == Format(cSystemdUnitNameTemplate, instance)

\* Result of CreateInstanceID: the instance ID, or the thrown InvalidArgument.
InvalidArgument == [ok |-> FALSE, id |-> <<>>]
ParsedID(id)    == [ok |-> TRUE, id |-> id]

\* A parse that cuts one character too few off the end.
CreateInstanceID_KeepsDot(unitname) ==
    IF StartsWith(unitname, UnitPrefix) /\ EndsWith(unitname, UnitSuffix)
    THEN ParsedID(Substr(unitname, Len(UnitPrefix),
                         Len(unitname) - Len(UnitPrefix) - Len(UnitSuffix) + 1))
    ELSE InvalidArgument

\* A parse that does not check the suffix.
CreateInstanceID_NoSuffixCheck(unitname) ==
    IF StartsWith(unitname, UnitPrefix)
    THEN ParsedID(Substr(unitname, Len(UnitPrefix),
                         Len(unitname) - Len(UnitPrefix) - Len(UnitSuffix)))
    ELSE InvalidArgument

\* Runner::CreateInstanceID
CreateInstanceID(unitname) ==
    IF StartsWith(unitname, UnitPrefix) /\ EndsWith(unitname, UnitSuffix)
    THEN ParsedID(Substr(unitname, Len(UnitPrefix),
                         Len(unitname) - Len(UnitPrefix) - Len(UnitSuffix)))
    ELSE InvalidArgument

(***************************************************************************)
(* Data of the Runner.                                                     *)
(*                                                                         *)
(* In the state machine below an instance ID is a short string and the     *)
(* unit maps are keyed by it: the key "a" stands for the unit name         *)
(* CreateSystemdUnitName("a").  The naming functions above are checked on  *)
(* their own, under SpecNaming.                                            *)
(***************************************************************************)
\* Instance IDs the callers use.
InstanceIDs == {"a", "b"}

\* Threads calling StartInstance / StopInstance (the launcher's workers).
Threads == {"t1", "t2"}

NoExit    == <<>>

\* UnitStatus {mActiveState, mExitCode} as the supervisor reports it: a
\* failed unit has an exit code, a unit in another state has none.
UnitStatuses ==
    {[state |-> s, exit |-> NoExit] : s \in ({"active", "activating",
            "failed"}) \ {"failed"}}
        \cup {[state |-> "failed", exit |-> <<c>>] : c \in ({137})}

\* A unit the supervisor has not loaded: ListUnits does not list it.
NotLoaded == [state |-> "notloaded", exit |-> NoExit]

\* aos::Error: none, an error kind, or an error built from an exit code.
Err(kind, val) == [kind |-> kind, val |-> val]
ErrNone        == Err("none", 0)
ErrExit(c)     == Err("exit", c)
ErrNotFound    == Err("eNotFound", 0)
ErrFailed      == Err("eFailed", 0)
ErrIO          == Err("eIO", 0)

\* Return values: a RunStatus of StartInstance, an Error of StopInstance.
NoRet == [op |-> "none", id |-> "", state |-> "none", err |-> ErrNone]
StartRet(id, state, err) ==
    [op |-> "start", id |-> id, state |-> state, err |-> err]
StopRet(id, err) ==
    [op |-> "stop", id |-> id, state |-> "returned", err |-> err]

\* std::map operations.
MapPut(m, k, v) == [x \in DOMAIN m \cup {k} |-> IF x = k THEN v ELSE m[x]]
MapErase(m, k)  == [x \in DOMAIN m \ {k} |-> m[x]]
EmptyMap        == [x \in {} |-> NotLoaded]

\* A state mapping that reports a unit still being started as running.
ToInstanceState_ActivatingIsActive(state) ==
    IF state \in {"active", "activating"} THEN "Active" ELSE "Failed"

\* ToInstanceState
ToInstanceState(state) ==
    IF state = "active" THEN "Active" ELSE "Failed"

VARIABLES
    mSystemd,           \* the supervisor connection exists
    mClosed,            \* Runner::mClosed
    mMutex,             \* owner of Runner::mMutex across actions
    mStartingUnits,     \* unit -> StartingUnitData {mRunState, mExitCode}
    mRunningUnits,      \* unit -> RunningUnitData {mRunState, mExitCode}
    mRunningInstances,  \* the list last passed to UpdateRunStatus
    monPc,              \* position of the monitor thread
    ownerPc,            \* position of the thread calling Start / Stop
    pc,                 \* position of each caller thread
    arg,                \* the instance ID of each caller thread's call
    initStatus,         \* initialStatus of GetStartingUnitState
    stopErr,            \* err of StopInstance
    notified,           \* the condition variable the thread waits on was signalled
    dangling,           \* the StartingUnitData the thread waits on was erased
    crashed,            \* the process dereferenced a null connection or terminated
    sysd,               \* the supervisor: unit -> UnitStatus
    dropIn,             \* the file system: unit -> its drop-in directory exists
    returned,           \* output: the value the step just taken returned to a caller
    updateCalled,       \* output: the step just taken called UpdateRunStatus
    observedActive,     \* history: units a supervisor call reported active
    stopped,            \* history: instance ID -> a StopInstance returned, no start
                        \* since ("racing", "raced": it began while a start waited)
    ranSince,           \* history: "never": no StartInstance returned Active yet;
                        \* "since": runningUnits was not empty at some time since
                        \* the last Start(); "emptied": it has been empty since
    nCalls,             \* number of StartInstance / StopInstance calls made
    unitNameArg,        \* naming checks: the unit name given to CreateInstanceID
    instanceArg,        \* naming checks: the instance ID the name was made from
    parsed,             \* naming checks: the result of CreateInstanceID
    corePc,             \* AosCore: position of the application in its life cycle
    initDone,           \* AosCore: number of Init steps that succeeded
    up,                 \* AosCore: components that are started
    started,            \* AosCore: components Start started, in order
    cleanups,           \* AosCore: mCleanupManager, the registered cleanups
    stopLog,            \* AosCore: Stop calls made by the cleanups, in order
    fnName,             \* function checks: the function applied, or "none"
    fnArg,              \* function checks: its argument
    fnResult,           \* function checks: its result
    imgPc,              \* ImageHandler: "idle", "installed" or "digested"
    imgCall,            \* ImageHandler: the arguments of InstallLayer
    imgInstalled,       \* ImageHandler: what InstallLayer returned
    imgDigest,          \* ImageHandler: what CalculateDigest returned
    jaPc,               \* JournalAlerts: "running" or "stopped"
    journal,            \* JournalAlerts: the entries of the journal
    jRead,              \* JournalAlerts: number of entries read
    sentAlerts,         \* JournalAlerts: the alerts given to the sender
    storedCursor,       \* JournalAlerts: the cursor kept by the storage
    setCursorCalls,     \* JournalAlerts: the calls of SetJournalCursor
    jaStopRet,          \* JournalAlerts: <<>>, or the error Stop returned
    jSetups,            \* JournalAlerts: the set-ups of the journal, in order
    lQueue,             \* Launcher: <<>>, or the queued RunInstances request
    lRun,               \* Launcher: <<>>, or the reconciliation that runs
    lCurrent,           \* Launcher: CurrentState, instance -> version and state
    lLast,              \* Launcher: <<>>, or the most recent request
    lCount,             \* Launcher: number of requests made
    lmThread,           \* LayerManager: requester -> its install call
    lmCalls,            \* LayerManager: digest -> Downloader and ImageHandler calls
    lmLayers,           \* LayerManager: the digests of the installed layers
    smRows              \* ServiceManager: (serviceID, version) -> state of the row

runnerVars == <<mSystemd, mClosed, mMutex, mStartingUnits, mRunningUnits,
                mRunningInstances, monPc, ownerPc, pc, arg, initStatus,
                stopErr, notified, dangling, crashed, sysd, dropIn, returned,
                updateCalled, observedActive, stopped, ranSince, nCalls>>
namingVars == <<unitNameArg, instanceArg, parsed>>
coreVars   == <<corePc, initDone, up, started, cleanups, stopLog>>
fnVars     == <<fnName, fnArg, fnResult>>
imageVars  == <<imgPc, imgCall, imgInstalled, imgDigest>>
journalVars ==
    <<jaPc, journal, jRead, sentAlerts, storedCursor, setCursorCalls, jaStopRet,
      jSetups>>
mgrVars ==
    <<lQueue, lRun, lCurrent, lLast, lCount, lmThread, lmCalls, lmLayers, smRows>>
vars ==
    <<runnerVars, namingVars, coreVars, fnVars, imageVars, journalVars, mgrVars>>

\* The state after construction and Runner::Init: no connection, no monitor
\* thread, empty maps.
InitRunner ==
    /\ mSystemd = FALSE
    /\ mClosed = FALSE
    /\ mMutex = "free"
    /\ mStartingUnits = EmptyMap
    /\ mRunningUnits = EmptyMap
    /\ mRunningInstances = <<>>
    /\ monPc = "none"
    /\ ownerPc = "idle"
    /\ pc = [t \in Threads |-> "idle"]
    /\ arg = [t \in Threads |-> ""]
    /\ initStatus = [t \in Threads |-> NotLoaded]
    /\ stopErr = [t \in Threads |-> ErrNone]
    /\ notified = [t \in Threads |-> FALSE]
    /\ dangling = [t \in Threads |-> FALSE]
    /\ crashed = FALSE
    /\ sysd = [u \in InstanceIDs |-> NotLoaded]
    /\ dropIn = [u \in InstanceIDs |-> FALSE]
    /\ returned = NoRet
    /\ updateCalled = FALSE
    /\ observedActive = {}
    /\ ranSince = "never"
    /\ stopped = [i \in InstanceIDs |-> "no"]
    /\ nCalls = 0

InitNaming ==
    /\ unitNameArg = <<>>
    /\ instanceArg = <<>>
    /\ parsed = InvalidArgument

\* The AosCore object after construction: nothing initialized or started.
InitCore ==
    /\ corePc = "created"
    /\ initDone = 0
    /\ up = {}
    /\ started = <<>>
    /\ cleanups = <<>>
    /\ stopLog = <<>>

\* No conversion or parsing function was applied yet.
InitFn ==
    /\ fnName = "none"
    /\ fnArg = <<>>
    /\ fnResult = <<>>

\* The image handler was not called yet.
InitImage ==
    /\ imgPc = "idle"
    /\ imgCall = <<>>
    /\ imgInstalled = <<>>
    /\ imgDigest = <<>>

\* JournalAlerts after Init and Start: the journal has no new entry, the
\* storage keeps the cursor Start read from it.
InitJournal ==
    /\ jaPc = "running"
    /\ journal = <<>>
    /\ jRead = 0
    /\ sentAlerts = <<>>
    /\ storedCursor = <<0>>
    /\ setCursorCalls = <<>>
    /\ jaStopRet = <<>>
    /\ jSetups = <<[priorities |-> 0..4, unit |-> "init.scope",
                    seek |-> "tail", cursor |-> <<0>>]>>

\* The Launcher, the LayerManager and the ServiceManager after Init.
InitManagers ==
    /\ lQueue = <<>>
    /\ lRun = <<>>
    /\ lCurrent = <<>>
    /\ lLast = <<>>
    /\ lCount = 0
    /\ lmThread = [t \in Threads |->
                      [pc |-> "idle", digest |-> "", concurrent |-> FALSE,
                       result |-> "none"]]
    /\ lmCalls = [d \in {"d1", "d2"} |-> [download |-> 0, install |-> 0]]
    /\ lmLayers = {}
    /\ smRows = [k \in {"s1", "s2"} \X {"v1", "v2", "v3"} |-> "absent"]

Init ==
    /\ InitRunner /\ InitNaming /\ InitCore /\ InitFn /\ InitImage
    /\ InitJournal /\ InitManagers

(***************************************************************************)
(* Helpers of the actions.                                                 *)
(***************************************************************************)

\* Thread t is inside StartInstance(id).
Starting(t, id) == pc[t] \in ({"startUnit", "getStatus", "register",
        "waiting"}) /\ arg[t] = id

\* Threads blocked on the condition variable of the starting entry of unit u.
WaitersOn(u) ==
    {t \in Threads : pc[t] = "waiting" /\ arg[t] = u /\ ~dangling[t]}

\* Units ListUnits lists.
Listed == {u \in InstanceIDs : sysd[u] # NotLoaded}

\* A sequence holding the elements of a set, in the iteration order of the map.
RECURSIVE SeqOfSet(_)
SeqOfSet(S) ==
    IF S = {} THEN <<>>
    ELSE LET x == CHOOSE y \in S : TRUE
         IN  <<x>> \o SeqOfSet(S \ {x})

\* Error of a RunStatus built from a unit's exit code.
ExitError(exit) == IF exit = NoExit THEN ErrNone ELSE ErrExit(exit[1])

\* Runner::GetRunningInstances: one RunStatus per entry of the running map.
GetRunningInstances(running) ==
    LET order == SeqOfSet(DOMAIN running)
    IN  [k \in 1..Len(order) |->
            [instanceID |-> order[k],
             state      |-> running[order[k]].state,
             error      |-> ExitError(running[order[k]].exit)]]

\* RunningUnitData the monitor stores for a listed unit.
MonitoredData(status) ==
    [state |-> ToInstanceState(status.state), exit |-> status.exit]

\* MonitorUnits: the comparison of a running unit with the listed status.
RunningChanged(stored, status) ==
    \/ ToInstanceState(status.state) # stored.state
    \/ status.exit # stored.exit

\* A monitor that emits at every tick.
EmitNeeded_Always(unitChanged, running, instances) == TRUE

\* A monitor that emits on unit changes only.
EmitNeeded_ChangesOnly(unitChanged, running, instances) ==
    unitChanged

\* MonitorUnits: the condition of the UpdateRunStatus call.
EmitNeeded(unitChanged, running, instances) ==
    unitChanged \/ Cardinality(DOMAIN running) # Len(instances)

\* The running map after the monitor processed the listed units.
MonitorRunning(running) ==
    [u \in DOMAIN running |->
        IF u \in Listed /\ RunningChanged(running[u], sysd[u])
        THEN MonitoredData(sysd[u])
        ELSE running[u]]

\* The starting map after the monitor processed the listed units.
MonitorStarting(starting) ==
    [u \in DOMAIN starting |->
        IF u \in Listed THEN sysd[u] ELSE starting[u]]

\* A monitor that never signals a starting unit.
NotifyNeeded_Never(status) == FALSE

\* MonitorUnits: the condition of mCondVar.notify_all() on a starting unit.
NotifyNeeded(status) == status.state = "failed"

\* A StopInstance that forgets to erase the running entry.
EraseRunning_Keeps(running, unitName) == running

\* StopInstance: mRunningUnits.erase(unitName).
EraseRunning(running, unitName) == MapErase(running, unitName)

\* Error of a failed start, from the exit code of the starting unit.
StartError(exit) ==
    IF exit = NoExit THEN ErrFailed ELSE ErrExit(exit[1])

(***************************************************************************)
(* The owner thread: Runner::Start and Runner::Stop.                       *)
(***************************************************************************)
callerVars == <<pc, arg, initStatus, stopErr, notified, dangling>>
mapVars    == <<mStartingUnits, mRunningUnits>>
histVars   == <<observedActive, stopped, ranSince>>
otherVars  == <<nCalls, namingVars, coreVars, fnVars, imageVars, journalVars, mgrVars>>

\* The step returns nothing to a caller / does not call the receiver.
NoReturn == returned' = NoRet
NoUpdate == updateCalled' = FALSE

\* Runner::Start.  CreateSystemdConn may throw, and Start then changes
\* nothing; assigning a new thread to a std::thread that is still joinable
\* terminates the process.
Start ==
    /\ ~crashed
    /\ ownerPc = "idle"
    /\ \/ UNCHANGED <<mSystemd, mClosed, monPc, crashed, ranSince>>
       \/ /\ monPc = "none"
          /\ mSystemd' = TRUE
          /\ mClosed' = FALSE
          /\ monPc' = "waiting"
          /\ ranSince' = IF DOMAIN mRunningUnits # {} THEN "since"
                         ELSE IF ranSince = "never" THEN "never"
                         ELSE "emptied"
          /\ UNCHANGED crashed
       \/ /\ monPc # "none"
          /\ mSystemd' = TRUE
          /\ mClosed' = FALSE
          /\ crashed' = TRUE
          /\ UNCHANGED <<monPc, ranSince>>
    /\ NoReturn /\ NoUpdate
    /\ UNCHANGED <<ownerPc, mMutex, mapVars, mRunningInstances, callerVars,
                   sysd, dropIn, observedActive, stopped, otherVars>>

\* Runner::Stop, the critical section: returns at once when closed, else
\* sets mClosed and notifies mCondVar, the monitor's condition variable.
StopBegin ==
    /\ ~crashed
    /\ ownerPc = "idle"
    /\ mMutex = "free"
    /\ IF mClosed
       THEN UNCHANGED <<ownerPc, mClosed>>
       ELSE /\ mClosed' = TRUE
            /\ ownerPc' = "joining"
    /\ NoReturn /\ NoUpdate
    /\ UNCHANGED <<mSystemd, mMutex, mapVars, mRunningInstances, monPc,
                   callerVars, crashed, sysd, dropIn, histVars, otherVars>>

\* A Stop that drops the connection without joining the monitor thread.
StopJoin_NoJoin ==
    /\ ~crashed
    /\ ownerPc = "joining"
    /\ mSystemd' = FALSE
    /\ ownerPc' = "idle"
    /\ NoReturn /\ NoUpdate
    /\ UNCHANGED <<mClosed, mMutex, mapVars, mRunningInstances, monPc,
                   callerVars, crashed, sysd, dropIn, histVars, otherVars>>

\* Runner::Stop, after the critical section: join the monitor thread, then
\* mSystemd.reset().
StopJoin ==
    /\ ~crashed
    /\ ownerPc = "joining"
    /\ monPc \in {"none", "done"}
    /\ monPc' = "none"
    /\ mSystemd' = FALSE
    /\ ownerPc' = "idle"
    /\ NoReturn /\ NoUpdate
    /\ UNCHANGED <<mClosed, mMutex, mapVars, mRunningInstances, callerVars,
                   crashed, sysd, dropIn, histVars, otherVars>>

(***************************************************************************)
(* The monitor thread: Runner::MonitorUnits.                               *)
(***************************************************************************)
\* The monitor thread is blocked in mCondVar.wait_for, with the mutex
\* released.  wait_for returns, on the poll period or on Stop's notification,
\* with the mutex held: return when closed, else go on to ListUnits under
\* the mutex.
MonitorWake ==
    /\ ~crashed
    /\ monPc = "waiting"
    /\ mMutex = "free"
    /\ IF mClosed
       THEN monPc' = "done" /\ UNCHANGED mMutex
       ELSE monPc' = "listing" /\ mMutex' = "monitor"
    /\ NoReturn /\ NoUpdate
    /\ UNCHANGED <<mSystemd, mClosed, mapVars, mRunningInstances, ownerPc,
                   callerVars, crashed, sysd, dropIn, histVars, otherVars>>

\* ListUnits fails: the error is logged and MonitorUnits returns.
MonitorListFails ==
    /\ ~crashed
    /\ monPc = "listing"
    /\ monPc' = "done"
    /\ mMutex' = "free"
    /\ NoReturn /\ NoUpdate
    /\ UNCHANGED <<mSystemd, mClosed, mapVars, mRunningInstances, ownerPc,
                   callerVars, crashed, sysd, dropIn, histVars, otherVars>>

\* ListUnits succeeds: update the starting units and notify the waiters of
\* the failed ones, update the running units, call UpdateRunStatus when a
\* running unit changed or the number of running units differs from the
\* length of the last list; then unlock, and lock and wait again (mClosed
\* is read by the loop condition and by the predicate of wait_for, which
\* MonitorWake models).
MonitorListUnits ==
    /\ ~crashed
    /\ monPc = "listing"
    /\ LET unitChanged ==
               \E u \in DOMAIN mRunningUnits \cap Listed :
                   RunningChanged(mRunningUnits[u], sysd[u])
           running == MonitorRunning(mRunningUnits)
       IN  /\ mStartingUnits' = MonitorStarting(mStartingUnits)
           /\ notified' = [t \in Threads |->
                  IF /\ t \in WaitersOn(arg[t])
                     /\ arg[t] \in Listed
                     /\ NotifyNeeded(sysd[arg[t]])
                  THEN TRUE ELSE notified[t]]
           /\ mRunningUnits' = running
           /\ IF EmitNeeded(unitChanged, mRunningUnits, mRunningInstances)
              THEN /\ mRunningInstances' = GetRunningInstances(running)
                   /\ updateCalled' = TRUE
              ELSE /\ UNCHANGED mRunningInstances
                   /\ updateCalled' = FALSE
    /\ observedActive' =
           observedActive \cup {u \in Listed : sysd[u].state = "active"}
    /\ monPc' = "waiting"
    /\ mMutex' = "free"
    /\ NoReturn
    /\ UNCHANGED <<mSystemd, mClosed, ownerPc, pc, arg, initStatus, stopErr,
                   dangling, crashed, sysd, dropIn, stopped, ranSince,
                   otherVars>>

(***************************************************************************)
(* Caller threads: Runner::StartInstance.                                  *)
(***************************************************************************)
\* A supervisor call through a connection that does not exist (before
\* Start, after Stop) dereferences a null pointer.
NullDeref(t) ==
    /\ ~crashed
    /\ pc[t] \in {"startUnit", "getStatus", "stopUnit", "resetFailed"}
    /\ ~mSystemd
    /\ crashed' = TRUE
    /\ NoReturn /\ NoUpdate
    /\ UNCHANGED <<mSystemd, mClosed, mMutex, mapVars, mRunningInstances,
                   monPc, ownerPc, callerVars, sysd, dropIn, histVars,
                   otherVars>>

\* The call of thread t returns value: its locals are gone.
Return(t, value) ==
    /\ returned' = value
    /\ pc' = [pc EXCEPT ![t] = "idle"]
    /\ arg' = [arg EXCEPT ![t] = ""]
    /\ initStatus' = [initStatus EXCEPT ![t] = NotLoaded]
    /\ stopErr' = [stopErr EXCEPT ![t] = ErrNone]
    /\ notified' = [notified EXCEPT ![t] = FALSE]

\* The call of thread t goes on at position next.
Goto(t, next) ==
    /\ returned' = NoRet
    /\ pc' = [pc EXCEPT ![t] = next]

\* StartInstance up to SetRunParameters: CreateDir may fail, or create the
\* directory and WriteStringToFile fail, and StartInstance then returns
\* Failed with that error.
CallStartInstance(t, id) ==
    /\ ~crashed
    /\ pc[t] = "idle"
    /\ nCalls < MaxCalls
    /\ nCalls' = nCalls + 1
    /\ stopped' = [stopped EXCEPT ![id] = "no"]
    /\ \/ /\ UNCHANGED dropIn
          /\ Return(t, StartRet(id, "Failed", ErrIO))
       \/ /\ dropIn' = [dropIn EXCEPT ![id] = TRUE]
          /\ Return(t, StartRet(id, "Failed", ErrIO))
       \/ /\ dropIn' = [dropIn EXCEPT ![id] = TRUE]
          /\ Goto(t, "startUnit")
          /\ arg' = [arg EXCEPT ![t] = id]
          /\ UNCHANGED <<initStatus, stopErr, notified>>
    /\ NoUpdate
    /\ UNCHANGED <<mSystemd, mClosed, mMutex, mapVars, mRunningInstances,
                   monPc, ownerPc, dangling, crashed, sysd, observedActive, ranSince,
                   namingVars, coreVars, fnVars, imageVars, journalVars, mgrVars>>

\* A StartInstance that goes on after StartUnit failed.
StartUnit_Continues(t) ==
    /\ ~crashed
    /\ pc[t] = "startUnit"
    /\ mSystemd
    /\ Goto(t, "getStatus")
    /\ NoUpdate
    /\ UNCHANGED <<mSystemd, mClosed, mMutex, mapVars, mRunningInstances,
                   monPc, ownerPc, arg, initStatus, stopErr, notified,
                   dangling, crashed, sysd, dropIn, histVars, otherVars>>

\* mSystemd->StartUnit(unitName, "replace", startTime): an error returns
\* Failed; on success the supervisor has loaded the unit and is starting it.
StartUnit(t) ==
    /\ ~crashed
    /\ pc[t] = "startUnit"
    /\ mSystemd
    /\ \/ /\ Return(t, StartRet(arg[t], "Failed", ErrFailed))
          /\ UNCHANGED sysd
       \/ /\ sysd' = [sysd EXCEPT
                         ![arg[t]] =
                             IF @.state = "active" THEN @
                             ELSE [state |-> "activating", exit |-> NoExit]]
          /\ Goto(t, "getStatus")
          /\ UNCHANGED <<arg, initStatus, stopErr, notified>>
    /\ NoUpdate
    /\ UNCHANGED <<mSystemd, mClosed, mMutex, mapVars, mRunningInstances,
                   monPc, ownerPc, dangling, crashed, dropIn, histVars,
                   otherVars>>

\* GetStartingUnitState: mSystemd->GetUnitStatus(unitName).
GetUnitStatus(t) ==
    /\ ~crashed
    /\ pc[t] = "getStatus"
    /\ mSystemd
    /\ \/ /\ Return(t, StartRet(arg[t], "Failed", ErrFailed))
          /\ UNCHANGED observedActive
       \/ /\ sysd[arg[t]] # NotLoaded
          /\ initStatus' = [initStatus EXCEPT ![t] = sysd[arg[t]]]
          /\ observedActive' =
                 IF sysd[arg[t]].state = "active"
                 THEN observedActive \cup {arg[t]}
                 ELSE observedActive
          /\ Goto(t, "register")
          /\ UNCHANGED <<arg, stopErr, notified>>
    /\ NoUpdate
    /\ UNCHANGED <<mSystemd, mClosed, mMutex, mapVars, mRunningInstances,
                   monPc, ownerPc, dangling, crashed, sysd, dropIn, stopped,
                   ranSince, otherVars>>

\* GetStartingUnitState: lock, store the initial status in
\* mStartingUnits[unitName] and block in mCondVar.wait_for, which releases
\* the mutex.
RegisterStarting(t) ==
    /\ ~crashed
    /\ pc[t] = "register"
    /\ mMutex = "free"
    /\ mStartingUnits' = MapPut(mStartingUnits, arg[t], initStatus[t])
    /\ Goto(t, "waiting")
    /\ NoUpdate
    /\ UNCHANGED <<mSystemd, mClosed, mMutex, mRunningUnits, mRunningInstances,
                   monPc, ownerPc, arg, initStatus, stopErr, notified,
                   dangling, crashed, sysd, dropIn, histVars, otherVars>>

\* What the woken thread reads from mStartingUnits[unitName].  When another
\* thread erased the entry, it destroyed the condition variable this thread
\* was blocked on: the behaviour is undefined, any status may be read.
ReadStarting(t) ==
    IF dangling[t] THEN UnitStatuses ELSE {mStartingUnits[arg[t]]}

\* GetStartingUnitState: wait_for returns (notified, timed out or woken
\* spuriously) with the mutex held; read mStartingUnits[unitName], erase
\* it, and return Failed or insert the running entry and return Active.
WakeStarting(t) ==
    /\ ~crashed
    /\ pc[t] = "waiting"
    /\ mMutex = "free"
    /\ \E status \in ReadStarting(t) :
        /\ mStartingUnits' = MapErase(mStartingUnits, arg[t])
        /\ dangling' = [o \in Threads |->
               IF o = t THEN FALSE
               ELSE IF o \in WaitersOn(arg[t]) THEN TRUE
               ELSE dangling[o]]
        /\ IF status.state # "active"
           THEN /\ Return(t, StartRet(arg[t], "Failed",
                                      StartError(status.exit)))
                /\ UNCHANGED <<mRunningUnits, ranSince>>
           ELSE /\ mRunningUnits' =
                    MapPut(mRunningUnits, arg[t],
                           [state |-> "Active", exit |-> status.exit])
                /\ ranSince' = "since"
                /\ Return(t, StartRet(arg[t], "Active", ErrNone))
    /\ NoUpdate
    /\ UNCHANGED <<mSystemd, mClosed, mMutex, mRunningInstances, monPc,
                   ownerPc, crashed, sysd, dropIn, observedActive, stopped,
                   otherVars>>

(***************************************************************************)
(* Caller threads: Runner::StopInstance.                                   *)
(***************************************************************************)

\* A StopInstance that takes NotFound from StopUnit for an error.
StopUnitError_KeepsNotFound(e) == e

\* StopInstance: err after StopUnit returned e.
StopUnitError(e) == IF e = ErrNotFound THEN ErrNone ELSE e

\* StopInstance: err after ResetFailedUnit returned releaseErr.
ResetFailedError(err, releaseErr) ==
    IF releaseErr # ErrNone /\ releaseErr # ErrNotFound /\ err = ErrNone
    THEN releaseErr ELSE err

\* StopInstance: err after RemoveRunParameters returned rmErr.
RemoveError(err, rmErr) ==
    IF rmErr # ErrNone /\ err = ErrNone THEN rmErr ELSE err

\* StopInstance: the critical section that erases the running entry.
CallStopInstance(t, id) ==
    /\ ~crashed
    /\ pc[t] = "idle"
    /\ mMutex = "free"
    /\ nCalls < MaxCalls
    /\ nCalls' = nCalls + 1
    /\ arg' = [arg EXCEPT ![t] = id]
    /\ mRunningUnits' = EraseRunning(mRunningUnits, id)
    /\ Goto(t, "stopUnit")
    /\ stopped' = [stopped EXCEPT ![id] =
           IF \E o \in Threads : pc[o] = "waiting" /\ arg[o] = id
           THEN "racing"
           ELSE IF \E o \in Threads : Starting(o, id) THEN "no"
           ELSE IF @ \in {"no", "racing", "raced"} THEN "stopping" ELSE @]
    /\ NoUpdate
    /\ UNCHANGED <<mSystemd, mClosed, mMutex, mStartingUnits,
                   mRunningInstances, monPc, ownerPc, initStatus, stopErr,
                   notified, dangling, crashed, sysd, dropIn, observedActive, ranSince,
                   namingVars, coreVars, fnVars, imageVars, journalVars, mgrVars>>

\* mSystemd->StopUnit(unitName, "replace", cDefaultStopTimeout): NotFound
\* counts as success.  A stopped unit is unloaded.
StopUnit(t) ==
    /\ ~crashed
    /\ pc[t] = "stopUnit"
    /\ mSystemd
    /\ \E e \in ({ErrNone, ErrNotFound, ErrFailed}) :
        /\ stopErr' = [stopErr EXCEPT ![t] = StopUnitError(e)]
        /\ sysd' = [sysd EXCEPT
               ![arg[t]] = IF e = ErrNone THEN NotLoaded ELSE @]
    /\ Goto(t, "resetFailed")
    /\ NoUpdate
    /\ UNCHANGED <<mSystemd, mClosed, mMutex, mapVars, mRunningInstances,
                   monPc, ownerPc, arg, initStatus, notified, dangling,
                   crashed, dropIn, histVars, otherVars>>

\* mSystemd->ResetFailedUnit(unitName): its error is kept unless it is
\* NotFound or an earlier error is set.  A failed unit that is reset is
\* unloaded.
ResetFailedUnit(t) ==
    /\ ~crashed
    /\ pc[t] = "resetFailed"
    /\ mSystemd
    /\ \E e \in ({ErrNone, ErrNotFound, ErrFailed}) :
        /\ stopErr' = [stopErr EXCEPT ![t] = ResetFailedError(@, e)]
        /\ sysd' = [sysd EXCEPT
               ![arg[t]] = IF e = ErrNone /\ @.state = "failed"
                           THEN NotLoaded ELSE @]
    /\ Goto(t, "rmParams")
    /\ NoUpdate
    /\ UNCHANGED <<mSystemd, mClosed, mMutex, mapVars, mRunningInstances,
                   monPc, ownerPc, arg, initStatus, notified, dangling,
                   crashed, dropIn, histVars, otherVars>>

\* RemoveRunParameters: fs::RemoveAll of the drop-in directory; its error
\* is kept unless an earlier error is set.  StopInstance returns err.
RemoveRunParameters(t) ==
    /\ ~crashed
    /\ pc[t] = "rmParams"
    /\ \E ok \in BOOLEAN :
        /\ dropIn' = IF ok THEN [dropIn EXCEPT ![arg[t]] = FALSE] ELSE dropIn
        /\ Return(t, StopRet(arg[t],
                  RemoveError(stopErr[t], IF ok THEN ErrNone ELSE ErrIO)))
        /\ stopped' = [stopped EXCEPT ![arg[t]] =
               IF @ = "no" THEN "no"
               ELSE IF @ \in {"racing", "raced"} THEN "raced"
               ELSE "stopped"]
    /\ NoUpdate
    /\ UNCHANGED <<mSystemd, mClosed, mMutex, mapVars, mRunningInstances,
                   monPc, ownerPc, dangling, crashed, sysd, observedActive, ranSince,
                   otherVars>>

(***************************************************************************)
(* The host supervisor.                                                    *)
(***************************************************************************)
\* A loaded unit changes its state: the service comes up, crashes, or is
\* restarted by the supervisor.
UnitChange(u, status) ==
    /\ ~crashed
    /\ sysd[u] # NotLoaded
    /\ status # sysd[u]
    /\ sysd' = [sysd EXCEPT ![u] = status]
    /\ NoReturn /\ NoUpdate
    /\ UNCHANGED <<mSystemd, mClosed, mMutex, mapVars, mRunningInstances,
                   monPc, ownerPc, callerVars, crashed, dropIn, histVars,
                   otherVars>>

(***************************************************************************)
(* The naming functions on their own: CreateSystemdUnitName and            *)
(* CreateInstanceID applied to bounded sets of strings.                    *)
(***************************************************************************)

\* Strings made of at most n pieces.
RECURSIVE StringsOf(_)
StringsOf(n) ==
    IF n = 0 THEN {<<>>}
    ELSE LET shorter == StringsOf(n - 1)
         IN  shorter \cup {x \o part : x \in shorter, part \in ({<<"a">>, <<".">>,
                 <<"%", "s">>, UnitPrefix, UnitSuffix})}

\* No naming function was applied yet: each behaviour applies one.
NamingIdle == unitNameArg = <<>> /\ instanceArg = <<>>

\* CreateInstanceID(CreateSystemdUnitName(id)), as GetRunningInstances
\* applies it to the keys StartInstance made.
RoundTrip(id) ==
    /\ NamingIdle
    /\ instanceArg' = id
    /\ unitNameArg' = CreateSystemdUnitName(id)
    /\ parsed' = CreateInstanceID(CreateSystemdUnitName(id))
    /\ UNCHANGED <<runnerVars, coreVars, fnVars, imageVars, journalVars, mgrVars>>

\* CreateInstanceID(name) for a unit name that was not made from an ID.
ParseName(name) ==
    /\ NamingIdle
    /\ instanceArg' = <<>>
    /\ unitNameArg' = name
    /\ parsed' = CreateInstanceID(name)
    /\ UNCHANGED <<runnerVars, coreVars, fnVars, imageVars, journalVars, mgrVars>>

NextNaming ==
    \/ \E id \in (StringsOf(MaxIdLen)) : RoundTrip(id)
    \/ \E name \in ({h \o x \o t : h \in ({<<>>, UnitPrefix,
            SubSeq(UnitPrefix, 1, Len(UnitPrefix) - 1)}), x \in (StringsOf(MaxIdLen)), t
            \in ({<<>>, UnitSuffix, SubSeq(UnitSuffix, 1, Len(UnitSuffix) -
            1)})}) : ParseName(name)

SpecNaming == Init /\ [][NextNaming]_vars

(***************************************************************************)
(* The application: AosCore::Init, AosCore::Start, AosCore::Stop           *)
(* (src/src/app/aoscore.cpp).                                              *)
(***************************************************************************)
\* The steps of AosCore::Init, in order; each throws when it fails.
InitSteps ==
    <<"logger", "config", "cryptoProvider", "certLoader", "iamClientPublic",
      "nodeInfo", "iamClientPermissions", "hostDeviceManager",
      "resourceManager", "database", "trafficMonitor",
      "networkInterfaceManager", "namespaceManager", "cni", "networkManager",
      "resourceUsageProvider", "resourceMonitor",
      "downloadServicesSpaceAllocator", "downloadLayersSpaceAllocator",
      "servicesSpaceAllocator", "layersSpaceAllocator", "imageHandler",
      "serviceManager", "layerManager", "runner", "launcher", "smClient",
      "logProvider", "journalAlerts">>

\* The components AosCore::Start starts, in order.
StartOrder ==
    <<"runner", "launcher", "layerManager", "networkManager",
      "resourceMonitor", "serviceManager", "logProvider", "journalAlerts",
      "smClient">>

\* A Start that registers no cleanup for the component it started.
AddCleanup_Skips(list, component) == list

\* mCleanupManager.AddCleanup([this]() { component.Stop() ... })
AddCleanup(list, component) == Append(list, component)

\* CleanupManager::ExecuteCleanups: the cleanup it runs next is the one
\* registered last.
NextCleanup(list) == Len(list)

\* One step of AosCore::Init: the step succeeds, or its error is thrown
\* and Init is left.
InitStep ==
    /\ corePc \in {"created", "init"}
    /\ \/ /\ initDone' = initDone + 1
          /\ corePc' = IF initDone + 1 = Len(InitSteps) THEN "ready" ELSE "init"
       \/ /\ corePc' = "initFailed"
          /\ UNCHANGED initDone
    /\ UNCHANGED <<up, started, cleanups, stopLog, runnerVars, namingVars,
                   fnVars, imageVars, journalVars, mgrVars>>

\* One step of AosCore::Start: the component's Start succeeds and its
\* cleanup is registered, or its error is thrown and Start is left.
StartStep ==
    /\ corePc \in {"ready", "start"}
    /\ LET component == StartOrder[Len(started) + 1]
       IN  \/ /\ up' = up \cup {component}
              /\ started' = Append(started, component)
              /\ cleanups' = AddCleanup(cleanups, component)
              /\ corePc' = IF Len(started) + 1 = Len(StartOrder)
                           THEN "running" ELSE "start"
           \/ /\ corePc' = "startFailed"
              /\ UNCHANGED <<up, started, cleanups>>
    /\ UNCHANGED <<initDone, stopLog, runnerVars, namingVars, fnVars,
                   imageVars, journalVars, mgrVars>>

\* AosCore::Stop is called: mCleanupManager.ExecuteCleanups() begins.
StopCore ==
    /\ corePc \in {"ready", "startFailed", "running"}
    /\ corePc' = "stop"
    /\ UNCHANGED <<initDone, up, started, cleanups, stopLog, runnerVars,
                   namingVars, fnVars, imageVars, journalVars, mgrVars>>

\* ExecuteCleanups runs one cleanup: the component's Stop is called, its
\* error is logged and not thrown.
StopStep ==
    /\ corePc = "stop"
    /\ cleanups # <<>>
    /\ LET k == NextCleanup(cleanups)
       IN  \E ok \in BOOLEAN :
               /\ stopLog' = Append(stopLog, [component |-> cleanups[k],
                                              ok |-> ok])
               /\ up' = IF ok THEN up \ {cleanups[k]} ELSE up
               /\ cleanups' = [i \in 1..(Len(cleanups) - 1) |->
                                  IF i < k THEN cleanups[i] ELSE cleanups[i + 1]]
    /\ UNCHANGED <<corePc, initDone, started, runnerVars, namingVars, fnVars,
                   imageVars, journalVars, mgrVars>>

\* ExecuteCleanups has run every cleanup: AosCore::Stop returns.
StopDone ==
    /\ corePc = "stop"
    /\ cleanups = <<>>
    /\ corePc' = "stopped"
    /\ UNCHANGED <<initDone, up, started, cleanups, stopLog, runnerVars,
                   namingVars, fnVars, imageVars, journalVars, mgrVars>>

NextCore == InitStep \/ StartStep \/ StopCore \/ StopStep \/ StopDone

SpecCore == Init /\ [][NextCore]_vars

(***************************************************************************)
(* Conversions between the Aos types and the wire types                    *)
(* (src/src/utils/convert.cpp).  An Optional or an unset message field is  *)
(* <<>> or <<value>>.                                                      *)
(***************************************************************************)
\* Number of bits of the instance number of an InstanceFilter: the model
\* keeps the two's complement arithmetic of uint64_t / int64_t on a narrow
\* word.
IntBits == 4

\* static_cast<int64_t>(uint64_t)
ToSigned(u) == IF u >= 2^(IntBits - 1) THEN u - 2^IntBits ELSE u

\* static_cast<uint64_t>(int64_t)
ToUnsigned(i) == IF i < 0 THEN i + 2^IntBits ELSE i

\* aos::Error with its value, errno and message.
AosError(code, errno, message) ==
    [code |-> code, errno |-> errno, message |-> message]
AosErrorNone == AosError("eNone", 0, "")

\* ToString() of the enumerations the conversions print.
ToStr(value) ==
    CASE value = "eActive" -> "active"
      [] value = "eFailed" -> "failed"
      [] value = "eSystemAlert" -> "systemAlert"
      [] value = "eCoreAlert" -> "coreAlert"
      [] value = "eSystemQuotaAlert" -> "systemQuotaAlert"
      [] value = "eInstanceQuotaAlert" -> "instanceQuotaAlert"
      [] value = "eDeviceAllocateAlert" -> "deviceAllocateAlert"
      [] value = "eResourceValidateAlert" -> "resourceValidateAlert"
      [] value = "eDownloadProgressAlert" -> "downloadProgressAlert"
      [] value = "eServiceInstanceAlert" -> "serviceInstanceAlert"
      [] value = "eUpdateManager" -> "aos-updatemanager"
      [] value = "eRaise" -> "raise"
      [] value = "eFall" -> "fall"

\* ConvertAosErrorToProto: the message is set for a non-none error only.
ConvertAosErrorToProto(error) ==
    [aos_code  |-> error.code,
     exit_code |-> error.errno,
     message   |-> IF error # AosErrorNone THEN error.message ELSE ""]

\* ConvertToProto(const InstanceIdent&, ...)
IdentToProto(src) ==
    [service_id |-> src.serviceID,
     subject_id |-> src.subjectID,
     instance   |-> src.instance]

\* ConvertToProto(const InstanceStatus&, ...): the error field of the wire
\* message is cleared.
InstanceStatusToProto(src) ==
    [instance        |-> IdentToProto(src.ident),
     service_version |-> src.version,
     run_state       |-> ToStr(src.runState),
     error_info      |-> <<>>]

\* Instance identifiers and instance statuses given to the conversions.
Idents ==
    {[serviceID |-> sv, subjectID |-> "subject0", instance |-> n] :
        sv \in {"service0", "service1"}, n \in {0, 1}}

\* ConvertToProto applied to an InstanceStatus.
ConvertInstanceStatus(status) ==
    /\ fnName = "none"
    /\ fnName' = "InstanceStatusToProto"
    /\ fnArg' = status
    /\ fnResult' = InstanceStatusToProto(status)
    /\ UNCHANGED <<runnerVars, namingVars, coreVars, imageVars, journalVars, mgrVars>>

\* aos::Time values and TimestampToPB.
Times == {[sec |-> 10, nsec |-> 0], [sec |-> 20, nsec |-> 500]}
TimestampToPB(time) == [seconds |-> time.sec, nanos |-> time.nsec]

\* AlertVisitor::CreateAlert: the tag and the timestamp, no payload.
CreateAlert(src) ==
    [tag       |-> ToStr(src.tag),
     timestamp |-> TimestampToPB(src.timestamp),
     payload   |-> <<>>]

RECURSIVE ErrorsToProto(_)
ErrorsToProto(errors) ==
    IF errors = <<>> THEN <<>>
    ELSE <<ConvertAosErrorToProto(Head(errors))>> \o ErrorsToProto(Tail(errors))

\* AlertVisitor: one Visit per alternative of the AlertVariant.
AlertVisitor(val) ==
    CASE val.tag = "eSystemAlert" ->
           [CreateAlert(val) EXCEPT !.payload =
               <<[kind |-> "system_alert", message |-> val.message]>>]
      [] val.tag = "eCoreAlert" ->
           [CreateAlert(val) EXCEPT !.payload =
               <<[kind           |-> "core_alert",
                  core_component |-> ToStr(val.coreComponent),
                  message        |-> val.message]>>]
      [] val.tag = "eSystemQuotaAlert" ->
           [CreateAlert(val) EXCEPT !.payload =
               <<[kind      |-> "system_quota_alert",
                  parameter |-> val.parameter,
                  value     |-> val.value,
                  status    |-> ToStr(val.status)]>>]
      [] val.tag = "eInstanceQuotaAlert" ->
           [CreateAlert(val) EXCEPT !.payload =
               <<[kind      |-> "instance_quota_alert",
                  instance  |-> IdentToProto(val.ident),
                  parameter |-> val.parameter,
                  value     |-> val.value,
                  status    |-> ToStr(val.status)]>>]
      [] val.tag = "eDeviceAllocateAlert" ->
           [CreateAlert(val) EXCEPT !.payload =
               <<[kind     |-> "device_allocate_alert",
                  instance |-> IdentToProto(val.ident),
                  device   |-> val.device,
                  message  |-> val.message]>>]
      [] val.tag = "eResourceValidateAlert" ->
           [CreateAlert(val) EXCEPT !.payload =
               <<[kind   |-> "resource_validate_alert",
                  name   |-> val.name,
                  errors |-> ErrorsToProto(val.errors)]>>]
      [] val.tag = "eDownloadProgressAlert" -> CreateAlert(val)
      [] val.tag = "eServiceInstanceAlert" -> CreateAlert(val)

\* ConvertToProto applied to an AlertVariant.
ConvertAlert(alert) ==
    /\ fnName = "none"
    /\ fnName' = "AlertToProto"
    /\ fnArg' = alert
    /\ fnResult' = AlertVisitor(alert)
    /\ UNCHANGED <<runnerVars, namingVars, coreVars, imageVars, journalVars, mgrVars>>

\* ConvertToProto(const cloudprotocol::InstanceFilter&, ...) into a new
\* message: an unset string field reads as "".
InstanceFilterToProto(src) ==
    [service_id |-> IF src.serviceID # <<>> THEN src.serviceID[1] ELSE "",
     subject_id |-> IF src.subjectID # <<>> THEN src.subjectID[1] ELSE "",
     instance   |-> IF src.instance # <<>> THEN ToSigned(src.instance[1]) ELSE -1]

\* ConvertToAos(const servicemanager::v4::InstanceFilter&)
InstanceFilterToAos(val) ==
    [serviceID |-> IF val.service_id # "" THEN <<val.service_id>> ELSE <<>>,
     subjectID |-> IF val.subject_id # "" THEN <<val.subject_id>> ELSE <<>>,
     instance  |-> IF val.instance # -1 THEN <<ToUnsigned(val.instance)>> ELSE <<>>]

\* ConvertToProto of an InstanceFilter, then ConvertToAos of the result.
ConvertInstanceFilter(filter) ==
    /\ fnName = "none"
    /\ fnName' = "InstanceFilterRoundTrip"
    /\ fnArg' = filter
    /\ fnResult' = [wire |-> InstanceFilterToProto(filter),
                    back |-> InstanceFilterToAos(InstanceFilterToProto(filter))]
    /\ UNCHANGED <<runnerVars, namingVars, coreVars, imageVars, journalVars, mgrVars>>

\* Time::Unix(seconds, nanos)
TimeUnix(seconds, nanos) == [sec |-> seconds, nsec |-> nanos]

\* ConvertToAos(const google::protobuf::Timestamp&)
TimestampToAos(val) ==
    IF val.seconds > 0 THEN <<TimeUnix(val.seconds, val.nanos)>> ELSE <<>>

\* The wire timestamps given to the conversion.
MaxSeconds == 3

\* ConvertToAos applied to a wire Timestamp.
ConvertTimestamp(timestamp) ==
    /\ fnName = "none"
    /\ fnName' = "TimestampToAos"
    /\ fnArg' = timestamp
    /\ fnResult' = TimestampToAos(timestamp)
    /\ UNCHANGED <<runnerVars, namingVars, coreVars, imageVars, journalVars, mgrVars>>

NextConvert ==
    \/ \E status \in ({[ident |-> i, version |-> "1.0.0", runState |-> r,
            error |-> e] : i \in Idents, r \in {"eActive", "eFailed"}, e \in
            ({AosErrorNone, AosError("eFailed", 0, "failed"),
                    AosError("eRuntime", 2, "no such file")})}) : ConvertInstanceStatus(status)
    \/ \E alert \in (UNION { {[tag |-> "eSystemAlert", timestamp |-> t,
            message |-> msg] : t \in Times, msg \in ({"Hello World", ""})}, {[tag |->
            "eCoreAlert", timestamp |-> t, coreComponent |-> "eUpdateManager",
            message |-> msg] : t \in Times, msg \in ({"Hello World", ""})}, {[tag |->
            "eSystemQuotaAlert", timestamp |-> t, parameter |-> "cpu", value
            |-> v, status |-> st] : t \in Times, v \in {0, 90}, st \in
            {"eRaise", "eFall"}}, {[tag |-> "eInstanceQuotaAlert", timestamp
            |-> t, ident |-> i, parameter |-> "ram", value |-> 90, status |->
            st] : t \in Times, i \in Idents, st \in {"eRaise", "eFall"}},
            {[tag |-> "eDeviceAllocateAlert", timestamp |-> t, ident |-> i,
            device |-> "gpu0", message |-> msg] : t \in Times, i \in Idents,
            msg \in ({"Hello World", ""})}, {[tag |-> "eResourceValidateAlert", timestamp
            |-> t, name |-> "node0", errors |-> es] : t \in Times, es \in
            {<<>>, <<AosError("eFailed", 0, "failed")>>,
            <<AosError("eRuntime", 2, "no such file"), AosError("eFailed", 0,
            "failed")>>}}, {[tag |-> "eDownloadProgressAlert", timestamp |->
            t] : t \in Times}, {[tag |-> "eServiceInstanceAlert", timestamp
            |-> t, ident |-> i, version |-> "0.0.0", message |-> msg] : t \in
            Times, i \in Idents, msg \in ({"Hello World", ""})}}) : ConvertAlert(alert)
    \/ \E filter \in ({[serviceID |-> sv, subjectID |-> sb, instance |-> n] :
            sv \in {<<>>, <<"">>, <<"service0">>}, sb \in {<<>>, <<"">>,
            <<"subject0">>}, n \in {<<>>} \cup {<<u>> : u \in 0..(2^IntBits -
            1)}}) : ConvertInstanceFilter(filter)
    \/ \E timestamp \in ({[seconds |-> sec, nanos |-> n] : sec \in
            (-MaxSeconds)..MaxSeconds, n \in {0, 500}}) : ConvertTimestamp(timestamp)

SpecConvert == Init /\ [][NextConvert]_vars

(***************************************************************************)
(* The journal alerts section of the configuration                         *)
(* (src/src/config/config.cpp).                                            *)
(***************************************************************************)
cDefaultServiceAlertPriority == 4
cDefaultSystemAlertPriority == 3
cMaxAlertPriorityLevel == 7
cMinAlertPriorityLevel == 0

\* The priorities tried reach this far below the lowest and above the
\* highest level.
PriorityMargin == 3

\* GetOptionalValue<int>(key).value_or(default)
ValueOr(optional, default) == IF optional # <<>> THEN optional[1] ELSE default

\* The test that resets a priority to its default.
OutOfRange_OnlyAbove(priority) == priority > cMaxAlertPriorityLevel

OutOfRange(priority) ==
    priority > cMaxAlertPriorityLevel \/ priority < cMinAlertPriorityLevel

\* ParseJournalAlertsConfig: the two priorities, and the values the
\* warnings print.
ParseJournalAlertsConfig(object) ==
    LET service == ValueOr(object.serviceAlertPriority, cDefaultServiceAlertPriority)
        system  == ValueOr(object.systemAlertPriority, cDefaultSystemAlertPriority)
    IN  [mServiceAlertPriority |->
             IF OutOfRange(service) THEN cDefaultServiceAlertPriority ELSE service,
         mSystemAlertPriority |->
             IF OutOfRange(system) THEN cDefaultSystemAlertPriority ELSE system,
         warnings |->
             (IF OutOfRange(service) THEN <<cDefaultServiceAlertPriority>> ELSE <<>>)
             \o (IF OutOfRange(system) THEN <<cDefaultServiceAlertPriority>> ELSE <<>>)]

ParseConfig(object) ==
    /\ fnName = "none"
    /\ fnName' = "ParseJournalAlertsConfig"
    /\ fnArg' = object
    /\ fnResult' = ParseJournalAlertsConfig(object)
    /\ UNCHANGED <<runnerVars, namingVars, coreVars, imageVars, journalVars, mgrVars>>

NextConfig == \E object \in ([serviceAlertPriority : ({<<>>} \cup {<<n>> : n
        \in (cMinAlertPriorityLevel - PriorityMargin)
        ..(cMaxAlertPriorityLevel + PriorityMargin)}), systemAlertPriority :
        ({<<>>} \cup {<<n>> : n \in (cMinAlertPriorityLevel - PriorityMargin)
        ..(cMaxAlertPriorityLevel + PriorityMargin)})]) : ParseConfig(object)

SpecConfig == Init /\ [][NextConfig]_vars

(***************************************************************************)
(* ImageHandler (src/src/image/imagehandler.hpp).                          *)
(***************************************************************************)

\* The SHA-256 of an archive, kept abstract: a non-empty digest, different
\* for different contents.
Sha256(content) == "sha256:" \o content

\* ImageHandler::InstallLayer ignores its arguments and returns {""}.
InstallLayer(archivePath, installBasePath, layer) ==
    [value |-> "", error |-> "eNone"]

\* ImageHandler::CalculateDigest ignores its argument and returns {""}.
CalculateDigest(path) == [value |-> "", error |-> "eNone"]

\* InstallLayer is called for an archive; the layer info names the digest
\* of the archive or another one.
CallInstallLayer(archivePath, content, installBasePath, digest) ==
    /\ imgPc = "idle"
    /\ imgPc' = "installed"
    /\ imgCall' = [archivePath |-> archivePath, content |-> content,
                   installBasePath |-> installBasePath,
                   layer |-> [digest |-> digest]]
    /\ imgInstalled' = InstallLayer(archivePath, installBasePath, [digest |-> digest])
    /\ UNCHANGED <<imgDigest, runnerVars, namingVars, coreVars, fnVars,
                   journalVars, mgrVars>>

\* CalculateDigest is called for the path a successful InstallLayer returned.
CallCalculateDigest ==
    /\ imgPc = "installed"
    /\ imgInstalled.error = "eNone"
    /\ imgPc' = "digested"
    /\ imgDigest' = CalculateDigest(imgInstalled.value)
    /\ UNCHANGED <<imgCall, imgInstalled, runnerVars, namingVars, coreVars,
                   fnVars, journalVars, mgrVars>>

NextImage ==
    \/ \E archivePath \in ({"/download/l1.tar", "/download/l2.tar",
            "/download/l3.tar"}), content \in ({"c1", "c2", "c3", "c4"}),
          installBasePath \in ({"/layers", "/var/aos/layers", "/tmp/layers"}) :
            \E digest \in {Sha256(content), Sha256("other")} :
                CallInstallLayer(archivePath, content, installBasePath, digest)
    \/ CallCalculateDigest

SpecImage == Init /\ [][NextImage]_vars

(***************************************************************************)
(* JournalAlerts, as the tests drive it (src/tests/alerts/alerts_test.cpp) *)
(* and the specification describes it.                                     *)
(***************************************************************************)
\* Largest number of entries written to the journal.
MaxEntries == 2

CoreUnit ==
    <<"a", "o", "s", "-", "u", "p", "d", "a", "t", "e", "m", "a", "n",
      "a", "g", "e", "r", ".", "s", "e", "r", "v", "i", "c", "e">>
SystemUnit ==
    <<"i", "n", "i", "t", ".", "s", "e", "r", "v", "i", "c", "e">>
ServiceIDs ==
    {<<"s", "e", "r", "v", "i", "c", "e", "0">>,
     <<"s", "e", "r", "v", "i", "c", "e", "1">>}
ServiceUnitPath(id) == (<<"/", "s", "y", "s", "t", "e", "m", ".", "s", "l",
        "i", "c", "e", "/", "s", "y", "s", "t", "e", "m", "-", "a", "o", "s",
        "@", "s", "e", "r", "v", "i", "c", "e", ".", "s", "l", "i", "c", "e",
        "/">>) \o UnitPrefix \o id \o UnitSuffix

\* The messages of the entries; the second contains a string of the
\* filter of the configuration.
cFilteredMessage == "getty@tty1.service started"

\* The file name of a path: what follows its last "/".
RECURSIVE Basename(_)
Basename(path) ==
    IF \E i \in 1..Len(path) : path[i] = "/"
    THEN Basename(Tail(path))
    ELSE path

\* The instance-info provider of the tests: GetInstanceInfoByID.
GetInstanceInfoByID_NoVersion(id) ==
    [mInstanceIdent |-> [serviceID |-> id, subjectID |-> id, instance |-> 0],
     mVersion       |-> ""]

GetInstanceInfoByID(id) ==
    [mInstanceIdent |-> [serviceID |-> id, subjectID |-> id, instance |-> 0],
     mVersion       |-> "0.0.0"]

\* The alert made of one journal entry, as a sequence of no or one alert.
GetAlert(entry) ==
    LET unit == Basename(entry.mSystemdUnit)
    IN  IF StartsWith(unit, UnitPrefix) /\ EndsWith(unit, UnitSuffix)
        THEN LET id   == Substr(unit, Len(UnitPrefix),
                                Len(unit) - Len(UnitPrefix) - Len(UnitSuffix))
                 info == GetInstanceInfoByID(id)
             IN  <<[tag             |-> "eServiceInstanceAlert",
                    mInstanceIdent  |-> info.mInstanceIdent,
                    mServiceVersion |-> info.mVersion,
                    mMessage        |-> entry.mMessage]>>
        ELSE IF unit = CoreUnit
        THEN <<[tag            |-> "eCoreAlert",
                mCoreComponent |-> "eUpdateManager",
                mMessage       |-> entry.mMessage]>>
        ELSE IF entry.mMessage = cFilteredMessage
        THEN <<>>
        ELSE <<[tag |-> "eSystemAlert", mMessage |-> entry.mMessage]>>

\* Journal::GetCursor: the position after the entries read.  A cursor is
\* <<position>>; the empty string, no cursor, is <<>>.
GetCursor_Start(read) == <<0>>

GetCursor(read) == <<read>>

\* Largest number of failures of the journal.
MaxFailures == 2

\* The journal is set up: matches for the priorities 0..systemAlertPriority
\* (4 in the configuration of the tests), a match for init.scope, a seek
\* to the tail, then a seek to the cursor of the storage unless it is empty.
SetupJournal_NoSeek(cursor) ==
    [priorities |-> 0..4, unit |-> "init.scope", seek |-> "none",
     cursor |-> cursor]

SetupJournal(cursor) ==
    [priorities |-> 0..4, unit |-> "init.scope", seek |-> "tail",
     cursor |-> cursor]

\* systemd appends an entry to the journal.
JournalWrite(entry) ==
    /\ jaPc = "running"
    /\ Len(journal) < MaxEntries
    /\ journal' = Append(journal, entry)
    /\ UNCHANGED <<jaPc, jRead, sentAlerts, storedCursor, setCursorCalls,
                   jaStopRet, jSetups, runnerVars, namingVars, coreVars, fnVars, imageVars, mgrVars>>

\* The monitor reads the next entry (Next, GetEntry) and sends its alert.
ProcessJournal ==
    /\ jaPc = "running"
    /\ jRead < Len(journal)
    /\ jRead' = jRead + 1
    /\ sentAlerts' = sentAlerts \o GetAlert(journal[jRead + 1])
    /\ UNCHANGED <<jaPc, journal, storedCursor, setCursorCalls, jaStopRet,
                   jSetups, runnerVars, namingVars, coreVars, fnVars, imageVars, mgrVars>>

\* JournalAlerts::Stop: the cursor of the journal is given to the storage,
\* and the error of the storage is returned.
JournalAlertsStop ==
    /\ jaPc = "running"
    /\ jaPc' = "stopped"
    /\ \E err \in {ErrNone, ErrFailed} :
          /\ setCursorCalls' =
                 Append(setCursorCalls, [cursor |-> GetCursor(jRead), err |-> err])
          /\ storedCursor' = IF err = ErrNone THEN GetCursor(jRead) ELSE storedCursor
          /\ jaStopRet' = <<err>>
    /\ UNCHANGED <<journal, jRead, sentAlerts, jSetups, runnerVars,
                   namingVars, coreVars, fnVars, imageVars, mgrVars>>

\* Reading the journal fails in the monitor (GetCursor throws): the monitor
\* stores the empty cursor and sets the journal up again, at its tail.
RecoverJournalError ==
    /\ jaPc = "running"
    /\ Len(jSetups) <= MaxFailures
    /\ setCursorCalls' = Append(setCursorCalls, [cursor |-> <<>>, err |-> ErrNone])
    /\ storedCursor' = <<>>
    /\ jSetups' = Append(jSetups, SetupJournal(<<>>))
    /\ jRead' = Len(journal)
    /\ UNCHANGED <<jaPc, journal, sentAlerts, jaStopRet, runnerVars,
                   namingVars, coreVars, fnVars, imageVars, mgrVars>>

NextJournal ==
    \/ \E entry \in ({[mSystemdUnit |-> u, mMessage |-> msg] : u \in
            {ServiceUnitPath(id) : id \in ServiceIDs} \cup {CoreUnit,
            SystemUnit}, msg \in {"Hello World", cFilteredMessage}}) : JournalWrite(entry)
    \/ ProcessJournal
    \/ JournalAlertsStop
    \/ RecoverJournalError

SpecJournal == Init /\ [][NextJournal]_vars

(***************************************************************************)
(* Runtime::CreateHostFSWhiteouts, as its test drives it                   *)
(* (src/tests/launcher/runtime_test.cpp) and the specification describes   *)
(* it.  A directory is a function from the names of its entries to their   *)
(* file type and permission mode.                                          *)
(***************************************************************************)
\* Largest number of calls for one whiteouts directory.
MaxWhiteoutCalls == 3

\* A whiteout is made for every entry of / that is not in hostBinds and
\* has no entry in the directory yet.
CreateHostFSWhiteouts_AllOfRoot(dir, root, hostBinds) ==
    [name \in DOMAIN dir \cup root |->
        IF name \in DOMAIN dir THEN dir[name] ELSE [type |-> "character", mode |-> 0]]

CreateHostFSWhiteouts(dir, root, hostBinds) ==
    [name \in DOMAIN dir \cup (root \ hostBinds) |->
        IF name \in DOMAIN dir THEN dir[name] ELSE [type |-> "character", mode |-> 0]]

\* The first call for an instance: the directory was removed before
\* (SetUp); the entries of / and the hostBinds of the instance are any.
CallCreateHostFSWhiteouts(root, hostBinds) ==
    /\ fnName = "none"
    /\ fnName' = "CreateHostFSWhiteouts"
    /\ fnArg' = [root |-> root, hostBinds |-> hostBinds, calls |-> 1]
    /\ fnResult' = CreateHostFSWhiteouts(<<>>, root, hostBinds)
    /\ UNCHANGED <<runnerVars, namingVars, coreVars, imageVars, journalVars, mgrVars>>

\* A further call for the same directory and instance.
CallCreateHostFSWhiteoutsAgain ==
    /\ fnName = "CreateHostFSWhiteouts"
    /\ fnArg.calls < MaxWhiteoutCalls
    /\ fnArg' = [fnArg EXCEPT !.calls = @ + 1]
    /\ fnResult' = CreateHostFSWhiteouts(fnResult, fnArg.root, fnArg.hostBinds)
    /\ UNCHANGED <<fnName, runnerVars, namingVars, coreVars, imageVars,
                   journalVars, mgrVars>>

NextRuntime ==
    \/ \E root \in SUBSET ({"bin", "lib", "lib64", "usr", "home"}), hostBinds \in SUBSET ({"bin", "lib", "lib64", "usr", "home"}) :
          CallCreateHostFSWhiteouts(root, hostBinds)
    \/ CallCreateHostFSWhiteoutsAgain

SpecRuntime == Init /\ [][NextRuntime]_vars

(***************************************************************************)
(* The Launcher (reconciler), as the specification describes it.  A        *)
(* desired state is a function from the desired instances to the version   *)
(* of their bundle inputs.                                                 *)
(***************************************************************************)
\* Largest number of RunInstances requests.
MaxRequests == 3

\* A request is queued: it replaces the request still queued.
Enqueue_KeepsQueued(queue, desired) ==
    IF queue # <<>> THEN queue ELSE <<desired>>

Enqueue(queue, desired) == <<desired>>

\* RunInstances(desired): the request is queued for the reconcile thread.
RunInstances(desired) ==
    /\ lCount < MaxRequests
    /\ lCount' = lCount + 1
    /\ lQueue' = Enqueue(lQueue, desired)
    /\ lLast' = <<desired>>
    /\ UNCHANGED <<lRun, lCurrent, lmThread, lmCalls, lmLayers, smRows, runnerVars, namingVars, coreVars, fnVars,
                   imageVars, journalVars>>

\* The instances a reconciliation stops: those not desired any more and
\* those whose bundle inputs changed.
ToStop(current, desired) ==
    {i \in DOMAIN current :
        i \notin DOMAIN desired \/ current[i].version # desired[i]}

\* The reconcile thread takes the queued request when no reconciliation
\* runs, and diffs it against CurrentState.
Reconcile ==
    /\ lRun = <<>>
    /\ lQueue # <<>>
    /\ lQueue' = <<>>
    /\ LET desired == lQueue[1]
           toStop  == ToStop(lCurrent, desired)
       IN  lRun' = <<[desired |-> desired,
                      toStop  |-> toStop,
                      toStart |-> {i \in DOMAIN desired :
                                      i \notin DOMAIN lCurrent \/ i \in toStop}]>>
    /\ UNCHANGED <<lCurrent, lLast, lCount, lmThread, lmCalls, lmLayers, smRows, runnerVars, namingVars, coreVars,
                   fnVars, imageVars, journalVars>>

\* The RunStatus of a started instance is recorded in CurrentState, also
\* when the start failed.
RecordStatus_OnlyActive(current, i, version, state) ==
    IF state = "active"
    THEN MapPut(current, i, [version |-> version, state |-> state])
    ELSE current

RecordStatus(current, i, version, state) ==
    MapPut(current, i, [version |-> version, state |-> state])

\* Stop phase: Runner.StopInstance completes, with or without an error,
\* and the instance is removed from CurrentState.
StopPhase ==
    /\ lRun # <<>>
    /\ \E i \in lRun[1].toStop :
          /\ lRun' = <<[lRun[1] EXCEPT !.toStop = @ \ {i}]>>
          /\ lCurrent' = MapErase(lCurrent, i)
    /\ UNCHANGED <<lQueue, lLast, lCount, lmThread, lmCalls, lmLayers, smRows, runnerVars, namingVars, coreVars,
                   fnVars, imageVars, journalVars>>

\* Start phase, after the stop phase: the bundle is built and
\* Runner.StartInstance is called; the resulting RunStatus is recorded.
StartPhase ==
    /\ lRun # <<>>
    /\ lRun[1].toStop = {}
    /\ \E i \in lRun[1].toStart, state \in {"active", "failed"} :
          /\ lRun' = <<[lRun[1] EXCEPT !.toStart = @ \ {i}]>>
          /\ lCurrent' = RecordStatus(lCurrent, i, lRun[1].desired[i], state)
    /\ UNCHANGED <<lQueue, lLast, lCount, lmThread, lmCalls, lmLayers, smRows, runnerVars, namingVars, coreVars,
                   fnVars, imageVars, journalVars>>

\* Publish: the reconciliation completes.
Publish ==
    /\ lRun # <<>>
    /\ lRun[1].toStop = {}
    /\ lRun[1].toStart = {}
    /\ lRun' = <<>>
    /\ UNCHANGED <<lQueue, lCurrent, lLast, lCount, lmThread, lmCalls, lmLayers, smRows, runnerVars, namingVars,
                   coreVars, fnVars, imageVars, journalVars>>

NextLauncher ==
    \/ \E desired \in (UNION {[is -> {"v1", "v2"}] : is \in SUBSET {"i1",
            "i2"}}) : RunInstances(desired)
    \/ Reconcile
    \/ StopPhase
    \/ StartPhase
    \/ Publish

SpecLauncher == Init /\ [][NextLauncher]_vars

(***************************************************************************)
(* The times of Runner::StartInstance, on their own: the run parameters    *)
(* are fixed, the start time is computed and given to StartUnit and to     *)
(* GetStartingUnitState, which waits for it.  Durations are counted in     *)
(* half seconds.  Also Runner::StopInstance on its own, as a function of   *)
(* the running map and of what its three steps return.                     *)
(***************************************************************************)
\* Largest duration of the run parameters checked.
MaxInterval == 5

\* The factor of the start time; the specification gives it as 5.
cStartTimeMultiplier == 5

\* Duration::Seconds() of SetRunParameters, cast to uint32_t (on the narrow
\* word).
Seconds(duration) == (duration \div 2) % 2^IntBits

\* StartInstance with parameters params, where defaults holds
\* cDefaultStartInterval, cDefaultStartBurst and cDefaultRestartInterval:
\* absent parameters get their defaults, startTime is the multiple of the
\* start interval, and startTime is both the time given to StartUnit and
\* the timeout of the wait in GetStartingUnitState.  SetRunParameters
\* formats the drop-in from the fixed parameters.
StartInstanceTimes(params, defaults) ==
    /\ fnName = "none"
    /\ LET fixedParams ==
               [f \in DOMAIN params |->
                   IF params[f] = <<>> THEN defaults[f] ELSE params[f][1]]
           startTime == cStartTimeMultiplier * fixedParams.mStartInterval
       IN  /\ fnName' = "StartInstance"
           /\ fnArg' = [params |-> params, defaults |-> defaults]
           /\ fnResult' =
                  [fixedParams |-> fixedParams,
                   dropIn |->
                       [StartLimitIntervalSec |-> Seconds(fixedParams.mStartInterval),
                        StartLimitBurst |-> fixedParams.mStartBurst,
                        RestartSec |-> Seconds(fixedParams.mRestartInterval)],
                   startUnit |-> [mode |-> "replace", timeout |-> startTime],
                   timeout |-> startTime]
    /\ UNCHANGED <<runnerVars, namingVars, coreVars, imageVars, journalVars,
                   mgrVars>>

\* StopInstance(id) with the running map running, where StopUnit,
\* ResetFailedUnit and RemoveRunParameters return outcomes: the entry is
\* erased, then the three steps are made one after the other, none of them
\* under a condition, and err is returned.
StopInstanceOutcome(running, id, outcomes) ==
    /\ fnName = "none"
    /\ fnName' = "StopInstance"
    /\ fnArg' = [running |-> running, id |-> id, outcomes |-> outcomes]
    /\ fnResult' =
           [running |-> EraseRunning(running, id),
            calls |-> <<"StopUnit", "ResetFailedUnit", "RemoveRunParameters">>,
            err |-> RemoveError(
                        ResetFailedError(StopUnitError(outcomes.stopUnit),
                                         outcomes.resetFailed),
                        outcomes.remove)]
    /\ UNCHANGED <<runnerVars, namingVars, coreVars, imageVars, journalVars,
                   mgrVars>>

NextTimes ==
    \/ \E running \in {EmptyMap,
                        [u \in InstanceIDs |-> [state |-> "Active", exit |-> NoExit]]},
          e1 \in {ErrNone, ErrNotFound, ErrFailed, ErrIO},
          e2 \in {ErrNone, ErrNotFound, ErrFailed, ErrExit(137)},
          e3 \in {ErrNone, ErrNotFound, ErrIO} :
           StopInstanceOutcome(running, "a",
               [stopUnit |-> e1, resetFailed |-> e2, remove |-> e3])
    \/ \E startInterval \in {<<>>} \cup {<<n>> : n \in 0..MaxInterval}
                                \cup {<<2 * 2^IntBits + 2>>},
          startBurst \in {<<>>, <<0>>, <<3>>},
          restartInterval \in {<<>>, <<1>>, <<2>>},
          default \in {2, 4} :
           StartInstanceTimes(
               [mStartInterval |-> startInterval, mStartBurst |-> startBurst,
                mRestartInterval |-> restartInterval],
               [mStartInterval |-> default, mStartBurst |-> 3,
                mRestartInterval |-> 2])

SpecTimes == Init /\ [][NextTimes]_vars

(***************************************************************************)
(* The LayerManager's install of a layer, as the specification describes   *)
(* it: concurrent installs of one digest are coalesced.                    *)
(***************************************************************************)
\* An install of the digest is in flight.
InFlight_Never(threads, digest) == FALSE

InFlight(threads, digest) ==
    \E u \in DOMAIN threads :
        threads[u].digest = digest /\ threads[u].pc \in {"download", "install"}

\* The install of thread t ends with a result: t and every requester that
\* waits for the same digest get the result.
FinishInstall(t, result) ==
    [u \in Threads |->
        IF u = t \/ (lmThread[u].pc = "wait" /\ lmThread[u].digest = lmThread[t].digest)
        THEN [lmThread[u] EXCEPT !.pc = "done", !.result = result]
        ELSE lmThread[u]]

\* Install(digest) is called: an installed layer is a no-op, an install in
\* flight is waited for, otherwise the requester installs the layer.
LayerInstall(t, digest) ==
    /\ lmThread[t].pc = "idle"
    /\ lmThread' =
          [lmThread EXCEPT ![t] =
              [pc |-> IF digest \in lmLayers THEN "done"
                      ELSE IF InFlight(lmThread, digest) THEN "wait"
                      ELSE "download",
               digest |-> digest,
               concurrent |-> \E u \in Threads :
                                 /\ lmThread[u].digest = digest
                                 /\ lmThread[u].pc \in {"download", "install"},
               result |-> IF digest \in lmLayers THEN "ok" ELSE "none"]]
    /\ UNCHANGED <<lmCalls, lmLayers, smRows, lQueue, lRun, lCurrent, lLast,
                   lCount, runnerVars, namingVars, coreVars, fnVars, imageVars,
                   journalVars>>

\* The Downloader is called for the archive of the layer.
LayerDownload(t) ==
    /\ lmThread[t].pc = "download"
    /\ lmCalls' = [lmCalls EXCEPT ![lmThread[t].digest].download = @ + 1]
    /\ \/ lmThread' = [lmThread EXCEPT ![t].pc = "install"]
       \/ lmThread' = FinishInstall(t, "failed")
    /\ UNCHANGED <<lmLayers, smRows, lQueue, lRun, lCurrent, lLast, lCount,
                   runnerVars, namingVars, coreVars, fnVars, imageVars,
                   journalVars>>

\* ImageHandler.InstallLayer is called; on success the layer row is
\* inserted.
LayerUnpack(t) ==
    /\ lmThread[t].pc = "install"
    /\ lmCalls' = [lmCalls EXCEPT ![lmThread[t].digest].install = @ + 1]
    /\ \/ /\ lmThread' = FinishInstall(t, "ok")
          /\ lmLayers' = lmLayers \cup {lmThread[t].digest}
       \/ /\ lmThread' = FinishInstall(t, "failed")
          /\ lmLayers' = lmLayers
    /\ UNCHANGED <<smRows, lQueue, lRun, lCurrent, lLast, lCount, runnerVars,
                   namingVars, coreVars, fnVars, imageVars, journalVars>>

NextLayers ==
    \/ \E t \in Threads, digest \in DOMAIN lmCalls : LayerInstall(t, digest)
    \/ \E t \in Threads : LayerDownload(t)
    \/ \E t \in Threads : LayerUnpack(t)

SpecLayers == Init /\ [][NextLayers]_vars

(***************************************************************************)
(* The service catalog of the ServiceManager, as the specification         *)
(* describes it.                                                           *)
(***************************************************************************)
\* The row becomes Active; the Active row of the same serviceID becomes
\* Cached.
Activate_KeepsOthers(rows, key) == [rows EXCEPT ![key] = "active"]

Activate(rows, key) ==
    [k \in DOMAIN rows |->
        IF k = key THEN "active"
        ELSE IF k[1] = key[1] /\ rows[k] = "active" THEN "cached"
        ELSE rows[k]]

\* A service version is installed (a new row), or its Cached row is
\* promoted: a metadata-only operation.
ServiceInstallOrPromote(key) ==
    /\ smRows[key] \in {"absent", "cached"}
    /\ smRows' = Activate(smRows, key)
    /\ UNCHANGED <<lmThread, lmCalls, lmLayers, lQueue, lRun, lCurrent, lLast,
                   lCount, runnerVars, namingVars, coreVars, fnVars, imageVars,
                   journalVars>>

\* A service that is not used any more is marked Cached.
ServiceDemote(key) ==
    /\ smRows[key] = "active"
    /\ smRows' = [smRows EXCEPT ![key] = "cached"]
    /\ UNCHANGED <<lmThread, lmCalls, lmLayers, lQueue, lRun, lCurrent, lLast,
                   lCount, runnerVars, namingVars, coreVars, fnVars, imageVars,
                   journalVars>>

\* RemoveOutdated removes a Cached row.
ServiceRemove(key) ==
    /\ smRows[key] = "cached"
    /\ smRows' = [smRows EXCEPT ![key] = "absent"]
    /\ UNCHANGED <<lmThread, lmCalls, lmLayers, lQueue, lRun, lCurrent, lLast,
                   lCount, runnerVars, namingVars, coreVars, fnVars, imageVars,
                   journalVars>>

NextServices ==
    \/ \E key \in DOMAIN smRows : ServiceInstallOrPromote(key)
    \/ \E key \in DOMAIN smRows : ServiceDemote(key)
    \/ \E key \in DOMAIN smRows : ServiceRemove(key)

SpecServices == Init /\ [][NextServices]_vars

(***************************************************************************)
(* The Runner as a whole.                                                  *)
(***************************************************************************)
Next ==
    \/ Start
    \/ StopBegin
    \/ StopJoin
    \/ MonitorWake
    \/ MonitorListFails
    \/ MonitorListUnits
    \/ \E t \in Threads, id \in InstanceIDs : CallStartInstance(t, id)
    \/ \E t \in Threads : StartUnit(t)
    \/ \E t \in Threads : GetUnitStatus(t)
    \/ \E t \in Threads : RegisterStarting(t)
    \/ \E t \in Threads : WakeStarting(t)
    \/ \E t \in Threads, id \in InstanceIDs : CallStopInstance(t, id)
    \/ \E t \in Threads : StopUnit(t)
    \/ \E t \in Threads : ResetFailedUnit(t)
    \/ \E t \in Threads : RemoveRunParameters(t)
    \/ \E t \in Threads : NullDeref(t)
    \/ \E u \in InstanceIDs, status \in UnitStatuses : UnitChange(u, status)

Spec == Init /\ [][Next]_vars

\* The Runner after Start(), a StartInstance("a") that returned Active and a
\* monitor tick that emitted the list of "a": the state from which the calls
\* of the bound are counted.
InitRunning ==
    /\ mSystemd = TRUE
    /\ mClosed = FALSE
    /\ mMutex = "free"
    /\ mStartingUnits = EmptyMap
    /\ mRunningUnits = MapPut(EmptyMap, "a", [state |-> "Active", exit |-> NoExit])
    /\ mRunningInstances = GetRunningInstances(mRunningUnits)
    /\ monPc = "waiting"
    /\ ownerPc = "idle"
    /\ pc = [t \in Threads |-> "idle"]
    /\ arg = [t \in Threads |-> ""]
    /\ initStatus = [t \in Threads |-> NotLoaded]
    /\ stopErr = [t \in Threads |-> ErrNone]
    /\ notified = [t \in Threads |-> FALSE]
    /\ dangling = [t \in Threads |-> FALSE]
    /\ crashed = FALSE
    /\ sysd = [u \in InstanceIDs |->
                  IF u = "a" THEN [state |-> "active", exit |-> NoExit]
                  ELSE NotLoaded]
    /\ dropIn = [u \in InstanceIDs |-> u = "a"]
    /\ returned = NoRet
    /\ observedActive = {"a"}
    /\ ranSince = "since"
    /\ stopped = [i \in InstanceIDs |-> "no"]
    /\ updateCalled = FALSE
    /\ nCalls = 0
    /\ InitNaming /\ InitCore /\ InitFn /\ InitImage /\ InitJournal
    /\ InitManagers

SpecRunning == InitRunning /\ [][Next]_vars

\* The Runner where the monitor thread, once it can take a step, takes it
\* (ListUnits returns), and where the join of Stop returns once the monitor
\* thread has ended.
SpecLive ==
    /\ Spec
    /\ WF_vars(MonitorWake)
    /\ WF_vars(MonitorListFails \/ MonitorListUnits)
    /\ WF_vars(StopJoin)

(***************************************************************************)
(* Properties of the Runner (checked under Spec).                          *)
(***************************************************************************)
\* The step is a monitor tick whose ListUnits succeeded.
MonitorTick == monPc = "listing" /\ monPc' = "waiting"

\* The RunStatus entries of instance id in a list passed to UpdateRunStatus.
EntriesOf(list, id) == {k \in 1..Len(list) : list[k].instanceID = id}

\* C1: an instance is reported Active, by the return value of StartInstance
\* or in a list passed to UpdateRunStatus, only if a GetUnitStatus or a
\* ListUnits call reported its unit active before.
C1_ActiveOnlyIfObserved ==
    /\ returned.op = "start" /\ returned.state = "Active" =>
           returned.id \in observedActive
    /\ updateCalled =>
           \A k \in 1..Len(mRunningInstances) :
               mRunningInstances[k].state = "Active" =>
                   mRunningInstances[k].instanceID \in observedActive

\* C2: when StartInstance returns Active the unit has a running entry with
\* state Active; when it returns Failed the unit has no starting entry and
\* no running entry (stated for a return at which no other call for the
\* same instance is in progress).
C2_StartLeavesNoEntryOnFailure ==
    returned.op = "start" /\ (\A o \in Threads : arg[o] # returned.id) =>
        IF returned.state = "Active"
        THEN /\ returned.id \in DOMAIN mRunningUnits
             /\ mRunningUnits[returned.id].state = "Active"
        ELSE /\ returned.id \notin DOMAIN mStartingUnits
             /\ returned.id \notin DOMAIN mRunningUnits

\* C3: a monitor tick whose ListUnits succeeds calls UpdateRunStatus if and
\* only if the mapped state or the exit code of a listed running unit
\* differs from the stored one, or the number of running units differs from
\* the length of the last emitted list; the emitted list has exactly one
\* entry per running unit, carrying its stored state and exit code; a tick
\* that does not emit leaves the last emitted list as it was.
C3_EmitIffChanged ==
    [][MonitorTick =>
        LET changed ==
                \E u \in DOMAIN mRunningUnits :
                    /\ sysd[u] # NotLoaded
                    /\ \/ (IF sysd[u].state = "active"
                            THEN "Active" ELSE "Failed") # mRunningUnits[u].state
                       \/ sysd[u].exit # mRunningUnits[u].exit
            sizeDiffers ==
                Cardinality(DOMAIN mRunningUnits) # Len(mRunningInstances)
        IN  /\ updateCalled' <=> (changed \/ sizeDiffers)
            /\ updateCalled' =>
                   /\ Len(mRunningInstances') = Cardinality(DOMAIN mRunningUnits')
                   /\ \A u \in DOMAIN mRunningUnits' :
                          \E k \in 1..Len(mRunningInstances') :
                              /\ EntriesOf(mRunningInstances', u) = {k}
                              /\ mRunningInstances'[k].state =
                                     mRunningUnits'[u].state
                              /\ mRunningInstances'[k].error =
                                     ExitError(mRunningUnits'[u].exit)
            /\ ~updateCalled' => mRunningInstances' = mRunningInstances
    ]_vars

\* A tick emitted a list of two running instances.
C3_Witness ==
    /\ updateCalled
    /\ Len(mRunningInstances) = 2
    /\ DOMAIN mRunningUnits = InstanceIDs

\* C4: a monitor tick never removes a running entry; a running unit the tick
\* observes in a state other than active is stored as Failed, the tick emits
\* when the unit was stored as Active, and every list the tick emits shows it
\* as Failed; a running unit stored as Failed that the tick observes active
\* makes the tick emit a list that shows it as Active.
C4_FailedStaysUntilActiveAgain ==
    [][MonitorTick =>
        /\ DOMAIN mRunningUnits' = DOMAIN mRunningUnits
        /\ \A u \in DOMAIN mRunningUnits :
               sysd[u] # NotLoaded =>
                   IF sysd[u].state # "active"
                   THEN /\ mRunningUnits'[u].state = "Failed"
                        /\ mRunningUnits[u].state = "Active" => updateCalled'
                        /\ updateCalled' =>
                               \A k \in EntriesOf(mRunningInstances', u) :
                                   mRunningInstances'[k].state = "Failed"
                   ELSE /\ mRunningUnits'[u].state = "Active"
                        /\ mRunningUnits[u].state = "Failed" =>
                               /\ updateCalled'
                               /\ \E k \in EntriesOf(mRunningInstances', u) :
                                      mRunningInstances'[k].state = "Active"
    ]_vars

\* A tick emitted a running unit as Failed with its exit code while the
\* supervisor reports the unit failed.
C4_Witness ==
    /\ updateCalled
    /\ \E k \in 1..Len(mRunningInstances) :
           /\ mRunningInstances[k].state = "Failed"
           /\ mRunningInstances[k].error # ErrNone
           /\ sysd[mRunningInstances[k].instanceID].state = "failed"

\* C5: the critical section of Stop that closes the Runner notifies every
\* StartInstance call blocked on the condition variable of its starting
\* unit.
C5_StopWakesStartWaiters ==
    [][ownerPc = "idle" /\ ownerPc' = "joining" =>
        \A t \in Threads : pc[t] = "waiting" => notified'[t]]_vars

\* C6: a failure of ListUnits does not end the monitor thread: the thread
\* has returned only when the Runner is closed.
C6_MonitorSurvivesListFailure == monPc = "done" => mClosed

\* C7: a StartInstance call whose unit was not active when it began to wait
\* and whose starting entry holds the failed state with exit code c the
\* monitor observed returns Failed with the error of exit code c and leaves
\* no running entry for the unit (stated for a return at which no other
\* call for the same instance is in progress); a drop-in is removed by
\* StopInstance only.
C7_FailedStartReturnsExitCode ==
    [][/\ \A t \in Threads :
              /\ pc[t] = "waiting" /\ pc'[t] = "idle"
              /\ \A o \in Threads \ {t} : arg[o] # arg[t]
              /\ notified[t] /\ ~dangling[t]
              /\ initStatus[t].state # "active"
              /\ mStartingUnits[arg[t]].state = "failed"
              => /\ returned' = StartRet(arg[t], "Failed",
                                         ErrExit(mStartingUnits[arg[t]].exit[1]))
                 /\ arg[t] \notin DOMAIN mRunningUnits'
       /\ \A u \in InstanceIDs :
              dropIn[u] /\ ~dropIn'[u] =>
                  \E t \in Threads : pc[t] = "rmParams" /\ arg[t] = u
    ]_vars

C11_StopsStartedInReverse ==
    /\ corePc \in {"stop", "stopped"} =>
           /\ Len(stopLog) <= Len(started)
           /\ \A i \in 1..Len(stopLog) :
                  stopLog[i].component = started[Len(started) + 1 - i]
    /\ corePc = "stopped" => Len(stopLog) = Len(started)

\* Stop returned after it stopped three components, the Stop of the one
\* started last having failed.
C11_Witness ==
    /\ corePc = "stopped"
    /\ Len(stopLog) = 3
    /\ ~stopLog[1].ok
    /\ stopLog[3].component = "runner"

\* C12: when a step of AosCore::Init fails no component is started and no
\* later step of Init runs; when AosCore::Start fails no component is
\* started.
C12_NoPartialStart ==
    [][/\ corePc' = "initFailed" => up' = {}
       /\ corePc = "initFailed" => initDone' = initDone
       /\ corePc' = "startFailed" => up' = {}]_vars

(***************************************************************************)
(* Properties of the conversions (checked under SpecConvert).              *)
(***************************************************************************)
\* C13: the wire InstanceStatus carries error information exactly when the
\* source status has a non-none error, with the same code, errno and
\* message; ident, service version and run state are copied.
C13_InstanceStatusKeepsError ==
    fnName = "InstanceStatusToProto" =>
        /\ fnResult.error_info # <<>> <=> fnArg.error # AosErrorNone
        /\ fnArg.error # AosErrorNone =>
               fnResult.error_info =
                   <<[aos_code  |-> fnArg.error.code,
                      exit_code |-> fnArg.error.errno,
                      message   |-> fnArg.error.message]>>
        /\ fnResult.instance.service_id = fnArg.ident.serviceID
        /\ fnResult.instance.subject_id = fnArg.ident.subjectID
        /\ fnResult.instance.instance = fnArg.ident.instance
        /\ fnResult.service_version = fnArg.version
        /\ fnResult.run_state =
               (IF fnArg.runState = "eActive" THEN "active" ELSE "failed")

\* C14: the wire Alert has the tag and the timestamp of the alert and every
\* payload field of its variant; a ServiceInstanceAlert keeps its instance
\* ident, service version and message.
C14_AlertKeepsPayload ==
    fnName = "AlertToProto" =>
        /\ fnResult.tag = ToStr(fnArg.tag)
        /\ fnResult.timestamp.seconds = fnArg.timestamp.sec
        /\ fnResult.timestamp.nanos = fnArg.timestamp.nsec
        /\ fnArg.tag # "eDownloadProgressAlert" => fnResult.payload # <<>>
        /\ fnArg.tag \in {"eSystemAlert", "eCoreAlert", "eDeviceAllocateAlert",
                          "eServiceInstanceAlert"} =>
               fnResult.payload[1].message = fnArg.message
        /\ fnArg.tag \in {"eSystemQuotaAlert", "eInstanceQuotaAlert"} =>
               /\ fnResult.payload[1].parameter = fnArg.parameter
               /\ fnResult.payload[1].value = fnArg.value
               /\ fnResult.payload[1].status = ToStr(fnArg.status)
        /\ fnArg.tag \in {"eInstanceQuotaAlert", "eDeviceAllocateAlert",
                          "eServiceInstanceAlert"} =>
               /\ fnResult.payload[1].instance.service_id = fnArg.ident.serviceID
               /\ fnResult.payload[1].instance.subject_id = fnArg.ident.subjectID
               /\ fnResult.payload[1].instance.instance = fnArg.ident.instance
        /\ fnArg.tag = "eCoreAlert" =>
               fnResult.payload[1].core_component = ToStr(fnArg.coreComponent)
        /\ fnArg.tag = "eDeviceAllocateAlert" =>
               fnResult.payload[1].device = fnArg.device
        /\ fnArg.tag = "eResourceValidateAlert" =>
               /\ fnResult.payload[1].name = fnArg.name
               /\ Len(fnResult.payload[1].errors) = Len(fnArg.errors)
               /\ \A i \in 1..Len(fnArg.errors) :
                      /\ fnResult.payload[1].errors[i].aos_code = fnArg.errors[i].code
                      /\ fnResult.payload[1].errors[i].exit_code = fnArg.errors[i].errno
                      /\ fnResult.payload[1].errors[i].message = fnArg.errors[i].message
        /\ fnArg.tag = "eServiceInstanceAlert" =>
               fnResult.payload[1].service_version = fnArg.version

\* C15: the wire instance of a filter is -1 exactly when the filter has no
\* instance value, and converting the wire filter back gives the filter.
C15_FilterRoundTrip ==
    fnName = "InstanceFilterRoundTrip" =>
        /\ fnResult.wire.instance = -1 <=> fnArg.instance = <<>>
        /\ fnResult.back = fnArg

\* C16: a wire timestamp gives an absent time exactly when its seconds are
\* 0; any other seconds, negative ones included, give a time built from
\* the seconds and the nanos.
C16_TimestampAbsentIffZero ==
    fnName = "TimestampToAos" =>
        /\ fnResult = <<>> <=> fnArg.seconds = 0
        /\ fnArg.seconds # 0 =>
               fnResult = <<[sec |-> fnArg.seconds, nsec |-> fnArg.nanos]>>

(***************************************************************************)
(* Properties of the configuration (checked under SpecConfig).             *)
(***************************************************************************)
\* C17: a priority given as an integer within [0,7] is parsed as given; a
\* priority outside [0,7] or absent is parsed as the default, 4 for the
\* service alerts and 3 for the system alerts; so both parsed priorities
\* are within [0,7].
C17_PriorityInRangeOrDefault ==
    fnName = "ParseJournalAlertsConfig" =>
        /\ fnResult.mServiceAlertPriority =
               (IF /\ fnArg.serviceAlertPriority # <<>>
                   /\ fnArg.serviceAlertPriority[1] \in 0..7
                THEN fnArg.serviceAlertPriority[1] ELSE 4)
        /\ fnResult.mSystemAlertPriority =
               (IF /\ fnArg.systemAlertPriority # <<>>
                   /\ fnArg.systemAlertPriority[1] \in 0..7
                THEN fnArg.systemAlertPriority[1] ELSE 3)
        /\ fnResult.mServiceAlertPriority \in 0..7
        /\ fnResult.mSystemAlertPriority \in 0..7

C17_Witness ==
    /\ fnName = "ParseJournalAlertsConfig"
    /\ fnArg.serviceAlertPriority = <<-1>>
    /\ fnArg.systemAlertPriority = <<7>>
    /\ fnResult.mServiceAlertPriority = 4
    /\ fnResult.mSystemAlertPriority = 7

(***************************************************************************)
(* Properties of the image handler (checked under SpecImage).              *)
(***************************************************************************)
\* C18: after InstallLayer succeeded for an archive whose SHA-256 is h,
\* CalculateDigest of the returned install path is h.
C18_DigestOfInstalledLayer ==
    (imgPc = "digested" /\ imgInstalled.error = "eNone") =>
        /\ imgDigest.error = "eNone"
        /\ imgDigest.value = Sha256(imgCall.content)

(***************************************************************************)
(* Properties of JournalAlerts (checked under SpecJournal).                *)
(***************************************************************************)
\* C19: when an entry whose systemd unit path ends in the unit
\* aos-service@<id>.service is read, exactly one alert is sent for it: a
\* ServiceInstanceAlert with the ident and the version the instance-info
\* provider returns for <id> and with the message of the entry.
C19_OneServiceAlertPerEntry ==
    [][\A id \in ServiceIDs :
          (/\ jRead' = jRead + 1
           /\ jSetups' = jSetups
           /\ journal[jRead'].mSystemdUnit = ServiceUnitPath(id)) =>
              sentAlerts' =
                  Append(sentAlerts,
                         [tag             |-> "eServiceInstanceAlert",
                          mInstanceIdent  |-> [serviceID |-> id, subjectID |-> id,
                                               instance |-> 0],
                          mServiceVersion |-> "0.0.0",
                          mMessage        |-> journal[jRead'].mMessage])]_vars

C19_Witness ==
    /\ jRead = 2
    /\ journal[1].mSystemdUnit = SystemUnit
    /\ journal[2].mSystemdUnit = ServiceUnitPath(<<"s", "e", "r", "v", "i", "c", "e", "0">>)
    /\ journal[2].mMessage = "Hello World"
    /\ Len(sentAlerts) = 2
    /\ sentAlerts[2].tag = "eServiceInstanceAlert"
    /\ sentAlerts[2].mMessage = "Hello World"

\* C20: Stop gives the current cursor of the journal to the storage; it
\* returns an error when the storage fails to store the cursor and no
\* error when the storage stores it.
C20_StopStoresCursor ==
    jaPc = "stopped" =>
        /\ setCursorCalls # <<>>
        /\ setCursorCalls[Len(setCursorCalls)].cursor = <<jRead>>
        /\ setCursorCalls[Len(setCursorCalls)].err # ErrNone =>
               jaStopRet # <<ErrNone>>
        /\ setCursorCalls[Len(setCursorCalls)].err = ErrNone =>
               /\ jaStopRet = <<ErrNone>>
               /\ storedCursor = <<jRead>>

C20_Witness ==
    /\ jaPc = "stopped"
    /\ jRead = 1
    /\ Len(setCursorCalls) = 1
    /\ setCursorCalls[1].err = ErrFailed
    /\ jaStopRet = <<ErrFailed>>
    /\ storedCursor = <<0>>

\* C21: when reading the journal fails while JournalAlerts runs, the
\* monitor keeps running: it stores the empty cursor and sets the journal
\* up again (matches for the priorities 0..systemAlertPriority, the match
\* for init.scope, seek to the tail); it does so after every failure, and
\* Stop can still be called and completes.
C21_MonitorRecovers ==
    [][Len(jSetups') # Len(jSetups) =>
          /\ jaPc' = "running"
          /\ storedCursor' = <<>>
          /\ setCursorCalls' # <<>>
          /\ setCursorCalls'[Len(setCursorCalls')].cursor = <<>>
          /\ Len(jSetups') = Len(jSetups) + 1
          /\ jSetups'[Len(jSetups')].priorities = 0..4
          /\ jSetups'[Len(jSetups')].unit = "init.scope"
          /\ jSetups'[Len(jSetups')].seek = "tail"
          /\ jRead' = Len(journal')
          /\ (ENABLED JournalAlertsStop)']_vars

C21_Witness ==
    /\ jaPc = "stopped"
    /\ Len(jSetups) = 3
    /\ jaStopRet = <<ErrNone>>
    /\ Len(journal) = 2
    /\ sentAlerts = <<>>

(***************************************************************************)
(* Properties of the runtime (checked under SpecRuntime).                  *)
(***************************************************************************)
\* C22: after CreateHostFSWhiteouts the entries of the directory are among
\* the entries of / that are not in hostBinds, each entry is a character
\* device with permission mode 0, and a further call leaves the whiteouts
\* as they are.
C22_WhiteoutsOfRootMinusBinds ==
    [][fnName' = "CreateHostFSWhiteouts" =>
          /\ DOMAIN fnResult' \subseteq fnArg'.root \ fnArg'.hostBinds
          /\ \A name \in DOMAIN fnResult' :
                 /\ fnResult'[name].type = "character"
                 /\ fnResult'[name].mode = 0
          /\ fnName = "CreateHostFSWhiteouts" => fnResult' = fnResult]_vars

C22_Witness ==
    /\ fnName = "CreateHostFSWhiteouts"
    /\ fnArg.calls = 2
    /\ fnArg.root = {"bin", "lib", "usr", "home"}
    /\ fnArg.hostBinds = {"bin", "lib", "lib64", "usr"}
    /\ DOMAIN fnResult = {"home"}

(***************************************************************************)
(* Properties of the Launcher (checked under SpecLauncher).                *)
(***************************************************************************)
\* C23: when a RunInstances reconciliation completes, the keys of
\* CurrentState are the instances of its desired state, whatever
\* CurrentState was before and whichever starts or stops failed.
C23_CurrentKeysAreDesired ==
    [][(lRun # <<>> /\ lRun' = <<>>) =>
          DOMAIN lCurrent' = DOMAIN lRun[1].desired]_vars

C23_Witness ==
    /\ lRun = <<>>
    /\ lQueue = <<>>
    /\ lCount = 2
    /\ DOMAIN lCurrent = {"i2"}
    /\ lCurrent["i2"] = [version |-> "v2", state |-> "failed"]

\* C24: at most one reconciliation runs at a time, a new request replaces
\* the request still queued, and once every request was processed the
\* applied state is that of the most recent request.
C24_SerializedAndCoalescing ==
    /\ Len(lRun) <= 1
    /\ Len(lQueue) <= 1
    /\ (lCount > 0 /\ lQueue # <<>>) => lQueue = lLast
    /\ (lCount > 0 /\ lQueue = <<>> /\ lRun = <<>>) =>
           /\ DOMAIN lCurrent = DOMAIN lLast[1]
           /\ \A i \in DOMAIN lCurrent : lCurrent[i].version = lLast[1][i]

C24_Witness ==
    /\ lCount = 3
    /\ lQueue = <<>>
    /\ lRun = <<>>
    /\ DOMAIN lLast[1] = {"i1"}
    /\ lLast[1]["i1"] = "v2"
    /\ DOMAIN lCurrent = {"i1"}

\* C27 (as claimed): when the monitor observes the starting unit of a
\* waiting StartInstance in state active or failed, it signals the unit's
\* condition variable.
C27_MonitorSignalsTerminal ==
    [][\A t \in Threads :
          (/\ monPc = "listing" /\ monPc' = "waiting"
           /\ t \in WaitersOn(arg[t])
           /\ arg[t] \in Listed
           /\ sysd[arg[t]].state \in {"active", "failed"}) =>
              notified'[t]]_vars

\* C27 (amended): the monitor forwards the observed state to the starting
\* entry, and signals its condition variable when the state is failed; the
\* waiting StartInstance can then go on and returns Failed.  A unit observed
\* active is not signalled.
C27_MonitorSignalsFailed ==
    [][\A t \in Threads :
          (/\ monPc = "listing" /\ monPc' = "waiting"
           /\ t \in WaitersOn(arg[t])
           /\ arg[t] \in Listed) =>
              /\ mStartingUnits'[arg[t]] = sysd[arg[t]]
              /\ sysd[arg[t]].state = "failed" =>
                     (notified'[t] /\ pc'[t] = "waiting" /\ mMutex' = "free")
              /\ sysd[arg[t]].state # "failed" => notified'[t] = notified[t]]_vars

C27_Witness ==
    \E t \in Threads :
        /\ pc[t] = "waiting"
        /\ notified[t]
        /\ ~dangling[t]
        /\ mStartingUnits[arg[t]].state = "failed"

\* C28 (as claimed): StartInstance registers the unit in startingUnits and
\* waits only if the initial state read from the supervisor is not terminal.
C28_RegistersOnlyIfNotTerminal ==
    [][\A t \in Threads :
          (pc[t] = "register" /\ pc'[t] = "waiting") =>
              initStatus[t].state \notin {"active", "failed"}]_vars

\* C29 (as claimed): the time StartInstance waits on the condition variable
\* of the starting unit is at most the effective startInterval (the given
\* value or the default), for every RunParameters value.
C29_WaitAtMostStartInterval ==
    fnName = "StartInstance" =>
        fnResult.timeout <= fnResult.fixedParams.mStartInterval

\* C33 (as claimed): absent run parameters get their defaults and present
\* ones are used unchanged; the effective values are the ones written to
\* the drop-in; StartUnit is requested in mode replace with a deadline of 5
\* times the effective startInterval.
C33_EffectiveParametersAreUsed ==
    fnName = "StartInstance" =>
        /\ \A f \in DOMAIN fnArg.params :
               fnResult.fixedParams[f] =
                   IF fnArg.params[f] = <<>> THEN fnArg.defaults[f]
                   ELSE fnArg.params[f][1]
        /\ 2 * fnResult.dropIn.StartLimitIntervalSec =
               fnResult.fixedParams.mStartInterval
        /\ fnResult.dropIn.StartLimitBurst = fnResult.fixedParams.mStartBurst
        /\ 2 * fnResult.dropIn.RestartSec = fnResult.fixedParams.mRestartInterval
        /\ fnResult.startUnit =
               [mode |-> "replace",
                timeout |-> 5 * fnResult.fixedParams.mStartInterval]

\* C34 (as claimed): after every monitor tick whose ListUnits succeeds, the
\* instance IDs of the last emitted RunStatus list are the units of
\* runningUnits.
C34_EmittedListMatchesRunning ==
    [][MonitorTick =>
          {mRunningInstances'[k].instanceID : k \in 1..Len(mRunningInstances')}
              = DOMAIN mRunningUnits']_vars

\* C35 (as claimed): when a StopInstance(id) that began while a
\* StartInstance(id) was waiting for the unit returns after that
\* StartInstance has returned, id has no entry in runningUnits.
C35_StopAfterStartLeavesNoEntry ==
    [][\A id \in InstanceIDs :
          (/\ returned'.op = "stop" /\ returned'.id = id
           /\ stopped'[id] = "raced"
           /\ \A t \in Threads : arg'[t] # id) =>
              id \notin DOMAIN mRunningUnits']_vars

\* C36 (as claimed): a StartInstance or StopInstance that runs concurrently
\* with Stop() makes no supervisor call through the connection Stop() has
\* dropped: a call that has used the connection does not make its next
\* supervisor call through a connection that is gone.
C36_NoCallThroughDroppedConnection ==
    [][\A t \in Threads :
          ~(pc[t] \in {"getStatus", "resetFailed"} /\ mClosed /\ NullDeref(t))]_vars

\* C37 (as claimed): a unit has an entry in startingUnits exactly while some
\* StartInstance call for it is waiting; with two concurrent calls for one
\* instance the entry is not removed while the other call still waits.
C37_StartingEntryWhileWaiting ==
    \A u \in InstanceIDs :
        u \in DOMAIN mStartingUnits <=>
            \E t \in Threads : pc[t] = "waiting" /\ arg[t] = u

C39_StopReturnsFirstError ==
    fnName = "StopInstance" =>
        LET remaining ==
                <<IF fnArg.outcomes.stopUnit = ErrNotFound THEN ErrNone
                  ELSE fnArg.outcomes.stopUnit,
                  IF fnArg.outcomes.resetFailed = ErrNotFound THEN ErrNone
                  ELSE fnArg.outcomes.resetFailed,
                  fnArg.outcomes.remove>>
            errors == {k \in 1..3 : remaining[k] # ErrNone}
        IN  /\ fnArg.id \notin DOMAIN fnResult.running
            /\ fnResult.calls =
                   <<"StopUnit", "ResetFailedUnit", "RemoveRunParameters">>
            /\ fnResult.err =
                   IF errors = {} THEN ErrNone
                   ELSE remaining[CHOOSE k \in errors :
                                      \A j \in errors : k <= j]

C39_Witness ==
    /\ fnName = "StopInstance"
    /\ "a" \in DOMAIN fnArg.running
    /\ fnArg.outcomes =
           [stopUnit |-> ErrNotFound, resetFailed |-> ErrExit(137),
            remove |-> ErrIO]
    /\ fnResult.err = ErrExit(137)

\* C30 (as claimed): no thread holds the mutex of the Runner while it is
\* inside a supervisor call (StartUnit, StopUnit, ResetFailedUnit,
\* GetUnitStatus, ListUnits).
C30_NoLockAcrossSupervisorCalls ==
    /\ monPc = "listing" => mMutex # "monitor"
    /\ \A t \in Threads :
          pc[t] \in {"startUnit", "getStatus", "stopUnit", "resetFailed"} =>
              mMutex # t

\* C31: Stop sets mClosed under the mutex, joins the monitor thread and only
\* then drops the connection; it terminates when the monitor is not blocked
\* in a collaborator call; after it returned the monitor thread is gone (no
\* ListUnits call, no UpdateRunStatus call); a second Stop changes nothing.
C31_StopIsOrderedAndTerminates ==
    /\ [][(~mClosed /\ mClosed') => (mMutex = "free" /\ ownerPc' = "joining")]_vars
    /\ [][(mSystemd /\ ~mSystemd') =>
              (mClosed /\ ownerPc = "joining" /\ monPc \in {"none", "done"})]_vars
    /\ []((mClosed /\ ownerPc = "idle" /\ ~crashed) =>
              (/\ monPc = "none" /\ ~mSystemd /\ ~updateCalled
               /\ ~ENABLED MonitorWake
               /\ ~ENABLED MonitorListUnits))
    /\ [][(mClosed /\ ownerPc = "idle" /\ StopBegin) =>
              UNCHANGED <<mSystemd, mClosed, mMutex, mapVars, mRunningInstances,
                          monPc, ownerPc, callerVars, crashed, sysd, dropIn,
                          histVars>>]_vars
    /\ (ownerPc = "joining") ~> (ownerPc = "idle" \/ crashed)

C31_Witness ==
    /\ mClosed /\ ownerPc = "idle" /\ ~crashed
    /\ DOMAIN mRunningUnits # {}
    /\ \E t \in Threads : pc[t] = "waiting"

\* C32: StartInstance writes the drop-in before it requests StartUnit; when
\* the write or StartUnit fails it returns Failed with that error, makes no
\* later supervisor call and adds no starting or running entry.
C32_FailedStartStopsEarly ==
    [][\A t \in Threads :
          /\ (pc[t] = "idle" /\ pc'[t] = "startUnit") =>
                 (dropIn'[arg'[t]] /\ sysd' = sysd /\ UNCHANGED mapVars)
          /\ (pc[t] = "idle" /\ pc' = pc /\ returned'.op = "start") =>
                 /\ returned'.state = "Failed" /\ returned'.err = ErrIO
                 /\ sysd' = sysd /\ UNCHANGED mapVars
          /\ (pc[t] = "startUnit" /\ pc'[t] = "idle") =>
                 /\ returned' = StartRet(arg[t], "Failed", ErrFailed)
                 /\ sysd' = sysd /\ UNCHANGED mapVars
          /\ (pc[t] = "startUnit" /\ pc'[t] = "getStatus") =>
                 /\ sysd'[arg[t]].state \in {"activating", "active"}
                 /\ UNCHANGED mapVars]_vars

C32_Witness ==
    /\ returned = StartRet("a", "Failed", ErrFailed)
    /\ sysd["a"] = NotLoaded
    /\ dropIn["a"]
    /\ "a" \notin DOMAIN mStartingUnits \cup DOMAIN mRunningUnits

C26_OneActivePerService ==
    \A k1 \in DOMAIN smRows, k2 \in DOMAIN smRows :
        (k1[1] = k2[1] /\ smRows[k1] = "active" /\ smRows[k2] = "active") =>
            k1 = k2

C26_Witness ==
    /\ smRows[<<"s1", "v1">>] = "cached"
    /\ smRows[<<"s1", "v2">>] = "active"
    /\ smRows[<<"s1", "v3">>] = "absent"
    /\ smRows[<<"s2", "v3">>] = "active"
    /\ smRows[<<"s2", "v1">>] = "cached"

(***************************************************************************)
(* Properties of the naming functions (checked under SpecNaming).          *)
(***************************************************************************)
\* C9: for every instance ID id, the unit name CreateSystemdUnitName makes
\* is aos-service@<id>.service, and CreateInstanceID gives id back from it.
C9_RoundTripGivesID ==
    /\ instanceArg # <<>> =>
           unitNameArg = UnitPrefix \o instanceArg \o UnitSuffix
    /\ unitNameArg = UnitPrefix \o instanceArg \o UnitSuffix =>
           parsed = ParsedID(instanceArg)

\* An instance ID that itself ends with the suffix went through the round
\* trip.
C9_Witness ==
    /\ instanceArg = <<"a">> \o UnitSuffix
    /\ parsed = ParsedID(<<"a">> \o UnitSuffix)

\* C10: CreateInstanceID throws InvalidArgument for every unit name that
\* does not both start with aos-service@ and end with .service, and for a
\* name that has both it returns exactly the characters between them.
C10_ParseChecksPrefixAndSuffix ==
    IF /\ Len(unitNameArg) >= Len(UnitPrefix)
       /\ \A k \in 1..Len(UnitPrefix) : unitNameArg[k] = UnitPrefix[k]
       /\ Len(unitNameArg) >= Len(UnitSuffix)
       /\ \A k \in 1..Len(UnitSuffix) :
              unitNameArg[Len(unitNameArg) - Len(UnitSuffix) + k] = UnitSuffix[k]
    THEN parsed = ParsedID(SubSeq(unitNameArg, Len(UnitPrefix) + 1,
                                  Len(unitNameArg) - Len(UnitSuffix)))
    ELSE parsed = InvalidArgument

\* A name with the prefix and a cut suffix was refused.
C10_Witness ==
    /\ StartsWith(unitNameArg, UnitPrefix)
    /\ Len(unitNameArg) > Len(UnitPrefix)
    /\ ~EndsWith(unitNameArg, UnitSuffix)
    /\ parsed = InvalidArgument

====
